---- MODULE Spec2Model ----
(***************************************************************************)
(* A model of the decision logic of mcp-christensen:                       *)
(*   - matchToCaseStudies (frameworks/disruption.ts): ranks the canonical  *)
(*     case studies against a list of observed signals;                    *)
(*   - calculateFidelityScore (validation/fidelity-check.ts): scores a     *)
(*     text against the positive and negative fidelity markers.            *)
(*   - the tools case_study, get_framework and analyze_decision (tools/)  *)
(*     and the tools/call request handler (tools/index.ts) that runs them; *)
(*   - the persona loader (persona/loader.ts) with its module-level cache; *)
(*   - identifyPrimaryBlocker (frameworks/capabilities.ts).                *)
(* JavaScript strings are TLA+ strings; Len, SubSeq and \o act on them     *)
(* character by character.                                                 *)
(***************************************************************************)
EXTENDS Integers, Sequences, FiniteSets, TLC

VARIABLES
    pc,        \* position of the current call: "ready" before it, "done" after
    signals,   \* argument of matchToCaseStudies
    matches,   \* value returned by matchToCaseStudies
    output,    \* argument of calculateFidelityScore
    score,     \* value returned by calculateFidelityScore
    library,   \* the module-level object CANONICAL_CASES
    markers,   \* the module-level objects POSITIVE_PATTERNS and NEGATIVE_PATTERNS
    history,   \* the calls made so far, each with its argument and its result
    request,   \* name and arguments of a tools/call request
    response,  \* what the request handler returns for it
    cachedPersona, \* the module-level variable cachedPersona of the persona loader
    personaFile,   \* the file personas/christensen.yaml as readFileSync finds it
    random,        \* what the next call of Math.random() returns
    analysis,      \* argument of identifyPrimaryBlocker
    primaryBlocker \* value returned by identifyPrimaryBlocker

vars ==
    <<pc, signals, matches, output, score, library, markers, history, request, response,
      cachedPersona, personaFile, random,
                   analysis, primaryBlocker>>

(***************************************************************************)
(* Bounds of the model.                                                    *)
(***************************************************************************)
MaxSignals == 3
MaxFragments == 2

(***************************************************************************)
(* String primitives of the JavaScript runtime.                            *)
(***************************************************************************)
Min(a, b) == IF a < b THEN a ELSE b
Max(a, b) == IF a > b THEN a ELSE b

UpperToLower ==
    [c \in {"A","B","C","D","E","F","G","H","I","J","K","L","M",
            "N","O","P","Q","R","S","T","U","V","W","X","Y","Z"} |->
       CASE c = "A" -> "a" [] c = "B" -> "b" [] c = "C" -> "c" [] c = "D" -> "d"
         [] c = "E" -> "e" [] c = "F" -> "f" [] c = "G" -> "g" [] c = "H" -> "h"
         [] c = "I" -> "i" [] c = "J" -> "j" [] c = "K" -> "k" [] c = "L" -> "l"
         [] c = "M" -> "m" [] c = "N" -> "n" [] c = "O" -> "o" [] c = "P" -> "p"
         [] c = "Q" -> "q" [] c = "R" -> "r" [] c = "S" -> "s" [] c = "T" -> "t"
         [] c = "U" -> "u" [] c = "V" -> "v" [] c = "W" -> "w" [] c = "X" -> "x"
         [] c = "Y" -> "y" [] c = "Z" -> "z"]

\* String.prototype.toLowerCase, one character.
toLowerChar(c) == IF c \in DOMAIN UpperToLower THEN UpperToLower[c] ELSE c

\* String.prototype.toLowerCase.
toLowerCase(s) ==
    LET lowered[lo \in 1..(Len(s) + 1), hi \in 0..Len(s)] ==
            IF hi < lo THEN ""
            ELSE IF lo = hi THEN toLowerChar(SubSeq(s, lo, lo))
            ELSE lowered[lo, (lo + hi) \div 2] \o lowered[((lo + hi) \div 2) + 1, hi]
    IN  lowered[1, Len(s)]

\* String.prototype.slice(0, n).
slice0(s, n) == SubSeq(s, 1, Min(n, Len(s)))

\* String.prototype.includes.
includes(s, t) ==
    \E i \in 1..(Len(s) - Len(t) + 1) : SubSeq(s, i, i + Len(t) - 1) = t

(***************************************************************************)
(* CANONICAL_CASES: the case study library, in declaration order.          *)
(***************************************************************************)
CaseKeys == <<"steel_minimills", "disk_drives", "honda_motorcycles", "intel_microprocessors">>

CANONICAL_CASES ==
    [key \in {CaseKeys[k] : k \in 1..Len(CaseKeys)} |->
       CASE key = "steel_minimills" ->
              [name |-> "Steel Mini-Mills",
               pattern |-> "Low-end disruption with asymmetric motivation",
               signals |-> <<"Incumbent has high fixed-cost structure",
                             "Low-end segments are unattractive margin-wise",
                             "Entrant has fundamentally different cost structure",
                             "Entrant quality improves over time",
                             "Incumbent 'rationally' cedes each tier">>]
         [] key = "disk_drives" ->
              [name |-> "Disk Drive Generations",
               pattern |-> "New-market disruption with different value network",
               signals |-> <<"New form factor or approach",
                             "Different performance dimensions valued",
                             "Enables new use cases existing solutions can't serve",
                             "Existing customers explicitly don't want it",
                             "New value network with different profit formula">>]
         [] key = "honda_motorcycles" ->
              [name |-> "Honda Motorcycles in America",
               pattern |-> "Emergent strategy through market learning",
               signals |-> <<"Initial strategy hypothesis doesn't match market reality",
                             "Unexpected customer segment emerges",
                             "Product finds use cases different from intended",
                             "Willingness to learn and adapt",
                             "Creates new category rather than competing in existing one">>]
         [] key = "intel_microprocessors" ->
              [name |-> "Intel's Pivot to Microprocessors",
               pattern |-> "Capability migration through process investment",
               signals |-> <<"Core business facing commoditization or decline",
                             "Adjacent opportunity emerging",
                             "Process capabilities (not just resources) are transferable",
                             "Requires fundamental priority shift",
                             "New market values same underlying capabilities differently">>]]

CaseKeySet == {CaseKeys[k] : k \in 1..Len(CaseKeys)}

\* Position of a case study in Object.entries(CANONICAL_CASES).
DeclIndex(key) == CHOOSE k \in 1..Len(CaseKeys) : CaseKeys[k] = key

AllCaseSignals ==
    UNION {{CANONICAL_CASES[key].signals[j] : j \in 1..Len(CANONICAL_CASES[key].signals)} :
           key \in CaseKeySet}

(***************************************************************************)
(* Inputs of matchToCaseStudies: the observations a call may carry.        *)
(***************************************************************************)
ScenarioA == "entrant has a fundamentally different cost structure and quality keeps improving toward mainstream"
ScenarioALiteral == "entrant has fundamentally different cost structure and quality keeps improving toward mainstream"

Observations ==
    {"",
     ScenarioA,
     ScenarioALiteral,
     "new",
     "New form factor or approach",
     "NEW FORM FACTOR OR APPROACH in a smaller device",
     "new form factor",
     "an unexpected customer",
     "Adjacent opportunity emerging",
     "Requires fundamental priority shift",
     "lower cost structure"}

SeqsUpTo(S, n) == UNION {[1..k -> S] : k \in 0..n}

\* String.prototype.toUpperCase (used to vary the letter case of inputs).
toUpperChar(c) ==
    IF \E u \in DOMAIN UpperToLower : UpperToLower[u] = c
    THEN CHOOSE u \in DOMAIN UpperToLower : UpperToLower[u] = c
    ELSE c

toUpperCase(s) ==
    LET raised[lo \in 1..(Len(s) + 1), hi \in 0..Len(s)] ==
            IF hi < lo THEN ""
            ELSE IF lo = hi THEN toUpperChar(SubSeq(s, lo, lo))
            ELSE raised[lo, (lo + hi) \div 2] \o raised[((lo + hi) \div 2) + 1, hi]
    IN  raised[1, Len(s)]

\* The observations with their letter case or surrounding whitespace varied.
ObservationVariants ==
    Observations
      \cup {toUpperCase(o) : o \in Observations}
      \cup {" " \o o : o \in Observations}
      \cup {o \o " " : o \in Observations}

CaseSignalVariants == AllCaseSignals \cup {toUpperCase(d) : d \in AllCaseSignals}

(***************************************************************************)
(* matchToCaseStudies.                                                     *)
(***************************************************************************)
\* Length of the leading fragment compared by the containment test.
PrefixLen == 20

\* A variant of the containment test that does not fold the user signal.
SignalMatches_UserCaseKept(userSignal, caseSignal) ==
    LET caseLower == toLowerCase(caseSignal)
    IN  \/ includes(userSignal, slice0(caseLower, PrefixLen))
        \/ includes(caseLower, slice0(userSignal, PrefixLen))

\* A variant of the containment test that compares 10 leading characters.
SignalMatches_ShortPrefix(userSignal, caseSignal) ==
    LET userLower == toLowerCase(userSignal)
        caseLower == toLowerCase(caseSignal)
    IN  \/ includes(userLower, slice0(caseLower, PrefixLen - 10))
        \/ includes(caseLower, slice0(userLower, PrefixLen - 10))

\* A variant of the containment test that requires the folded strings to be equal.
SignalMatches_Exact(userSignal, caseSignal) ==
    toLowerCase(userSignal) = toLowerCase(caseSignal)

\* A variant of the containment test that an empty user signal never passes.
SignalMatches_NonEmpty(userSignal, caseSignal) ==
    LET userLower == toLowerCase(userSignal)
        caseLower == toLowerCase(caseSignal)
    IN  /\ userSignal # ""
        /\ \/ includes(userLower, slice0(caseLower, PrefixLen))
           \/ includes(caseLower, slice0(userLower, PrefixLen))

\* The test of one user signal against one case signal.
SignalMatches(userSignal, caseSignal) ==
    LET userLower == toLowerCase(userSignal)
        caseLower == toLowerCase(caseSignal)
    IN  \/ includes(userLower, slice0(caseLower, PrefixLen))
        \/ includes(caseLower, slice0(userLower, PrefixLen))

\* SignalMatches is a pure function of its two strings: its value on the
\* inputs of the model is computed once and looked up afterwards.
MatchingPairs ==
    UNION {{<<u, c>> : c \in {d \in CaseSignalVariants : SignalMatches(u, d)}} :
           u \in ObservationVariants}

Matches(userSignal, caseSignal) ==
    IF userSignal \in ObservationVariants /\ caseSignal \in CaseSignalVariants
    THEN <<userSignal, caseSignal>> \in MatchingPairs
    ELSE SignalMatches(userSignal, caseSignal)

\* The inner loop over caseStudy.signals: the index of the first case signal
\* the user signal matches (where the loop breaks), 0 when it matches none.
FirstMatch(userSignal, caseSignals) ==
    LET hits == {j \in 1..Len(caseSignals) : Matches(userSignal, caseSignals[j])}
    IN  IF hits = {} THEN 0 ELSE CHOOSE j \in hits : \A k \in hits : j <= k

\* A variant of the loops that records each matched case signal once,
\* whatever the number of user signals that match it.
MatchedSignals_Distinct(sigs, caseSignals, n) ==
    LET hit == {j \in 1..Len(caseSignals) :
                    \E m \in 1..n : Matches(sigs[m], caseSignals[j])}
        pick[j \in 0..Len(caseSignals)] ==
            IF j = 0 THEN <<>>
            ELSE IF j \in hit THEN Append(pick[j - 1], caseSignals[j]) ELSE pick[j - 1]
    IN  pick[Len(caseSignals)]

\* The loop over the user signals for one case study: matchedSignals after
\* the first n user signals (matchCount is its length).
RECURSIVE MatchedSignals(_, _, _)
MatchedSignals(sigs, caseSignals, n) ==
    IF n = 0 THEN <<>>
    ELSE LET prev == MatchedSignals(sigs, caseSignals, n - 1)
             j == FirstMatch(sigs[n], caseSignals)
         IN  IF j = 0 THEN prev ELSE Append(prev, caseSignals[j])

\* A variant of the tier rule with the first threshold off by one.
MatchStrength_Strict(matchCount) ==
    IF matchCount > 3 THEN "high" ELSE IF matchCount >= 2 THEN "medium" ELSE "low"

\* matchCount >= 3 ? "high" : matchCount >= 2 ? "medium" : "low"
MatchStrength(matchCount) ==
    IF matchCount >= 3 THEN "high" ELSE IF matchCount >= 2 THEN "medium" ELSE "low"

\* Array.prototype.join.
RECURSIVE join(_, _)
join(strs, sep) ==
    IF Len(strs) = 0 THEN ""
    ELSE IF Len(strs) = 1 THEN strs[1]
    ELSE strs[1] \o sep \o join(Tail(strs), sep)

\* The CaseStudyReference pushed for one case study.  The fields key,
\* matchCount and matchedSignals are the loop's locals, kept beside the
\* relevance text that is built from them.
Reference(key, matched) ==
    [key |-> key,
     name |-> library[key].name,
     pattern |-> library[key].pattern,
     relevance |-> "Matches " \o ToString(Len(matched)) \o " signals: " \o join(matched, "; "),
     matchCount |-> Len(matched),
     matchedSignals |-> matched,
     matchStrength |-> MatchStrength(Len(matched))]

\* A variant of the loop that pushes a reference for every case study.
RECURSIVE Collect_NoElision(_, _)
Collect_NoElision(sigs, n) ==
    IF n = 0 THEN <<>>
    ELSE Append(Collect_NoElision(sigs, n - 1),
                Reference(CaseKeys[n],
                          MatchedSignals(sigs, library[CaseKeys[n]].signals, Len(sigs))))

\* The loop over Object.entries(CANONICAL_CASES): the references pushed for
\* the first n case studies.
RECURSIVE Collect(_, _)
Collect(sigs, n) ==
    IF n = 0 THEN <<>>
    ELSE LET prev == Collect(sigs, n - 1)
             key == CaseKeys[n]
             matched == MatchedSignals(sigs, library[key].signals, Len(sigs))
         IN  IF Len(matched) > 0 THEN Append(prev, Reference(key, matched)) ELSE prev

\* The comparator's order table.
StrengthOrder(strength) ==
    CASE strength = "high" -> 0
      [] strength = "medium" -> 1
      [] strength = "low" -> 2
      [] strength = "uncertain" -> 3

\* A variant of the insertion that moves a reference in front of its equals.
RECURSIVE InsertSorted_Unstable(_, _)
InsertSorted_Unstable(sorted, ref) ==
    IF Len(sorted) = 0 THEN <<ref>>
    ELSE IF StrengthOrder(sorted[Len(sorted)].matchStrength) - StrengthOrder(ref.matchStrength) >= 0
         THEN Append(InsertSorted_Unstable(SubSeq(sorted, 1, Len(sorted) - 1), ref),
                     sorted[Len(sorted)])
         ELSE Append(sorted, ref)

\* Array.prototype.sort with the comparator order[a] - order[b]: a stable
\* sort (ECMAScript 2019), here by insertion: ref moves in front of the
\* references the comparator puts strictly after it.
RECURSIVE InsertSorted(_, _)
InsertSorted(sorted, ref) ==
    IF Len(sorted) = 0 THEN <<ref>>
    ELSE IF StrengthOrder(sorted[Len(sorted)].matchStrength) - StrengthOrder(ref.matchStrength) > 0
         THEN Append(InsertSorted(SubSeq(sorted, 1, Len(sorted) - 1), ref), sorted[Len(sorted)])
         ELSE Append(sorted, ref)

RECURSIVE SortByStrength(_)
SortByStrength(refs) ==
    IF Len(refs) = 0 THEN <<>>
    ELSE InsertSorted(SortByStrength(SubSeq(refs, 1, Len(refs) - 1)), refs[Len(refs)])

matchToCaseStudies(sigs) == SortByStrength(Collect(sigs, Len(CaseKeys)))

(***************************************************************************)
(* Regular expressions.  A pattern is a sequence of elements; every        *)
(* pattern of the fidelity check but one carries the flag i and that one   *)
(* has no letter, so a pattern is written in lower case and matched        *)
(* against the lower-cased text.                                           *)
(***************************************************************************)
Lit(s) == [t |-> "lit", s |-> s]                  \* the characters of s
Alt(alts) == [t |-> "alt", alts |-> alts]         \* (?:a|b|...), a sequence of patterns
Opt(re) == Alt(<<re, <<>>>>)                      \* (?:re)?
Star(cls) == [t |-> "rep", cls |-> cls, min |-> 0]  \* [cls]*
Plus(cls) == [t |-> "rep", cls |-> cls, min |-> 1]  \* [cls]+
WordBoundary == [t |-> "wb"]                      \* \b
NotBehind(re) == [t |-> "notbehind", re |-> re]   \* (?<!re)
NotAhead(re) == [t |-> "notahead", re |-> re]     \* (?!re)
EndsAt(pos) == [t |-> "at", pos |-> pos]          \* the match has reached position pos
DashOrSpace == Alt(<< <<Lit("-")>>, <<Lit(" ")>> >>)  \* [- ]

WordChars == "abcdefghijklmnopqrstuvwxyz0123456789_ABCDEFGHIJKLMNOPQRSTUVWXYZ"
WordCharSet == {SubSeq(WordChars, k, k) : k \in 1..Len(WordChars)}
DigitSet == {"0", "1", "2", "3", "4", "5", "6", "7", "8", "9"}
SpaceSet == {" ", "\t", "\n", "\r"}
LineEndSet == {"\n", "\r"}

\* Membership of a character in a character class.
InClass(c, cls) ==
    CASE cls = "any" -> c \notin LineEndSet            \* .
      [] cls = "notdot" -> c # "."                     \* [^.]
      [] cls = "commaspace" -> c = "," \/ c \in SpaceSet  \* [,\s]
      [] cls = "space" -> c \in SpaceSet               \* \s
      [] cls = "digit" -> c \in DigitSet               \* \d

CharAt(text, i) == SubSeq(text, i, i)

\* \w at position i of the text (FALSE outside the text).
IsWordAt(text, i) == i >= 1 /\ i <= Len(text) /\ CharAt(text, i) \in WordCharSet

\* The number of characters of class cls in a row from position i.
RunLength(text, i, cls) ==
    LET stops == {j \in i..Len(text) : ~InClass(CharAt(text, j), cls)}
    IN  IF stops = {} THEN Len(text) + 1 - i
        ELSE (CHOOSE j \in stops : \A k \in stops : j <= k) - i

\* The backtracking matcher: the position after the match of pattern re
\* that starts at position i of the text, 0 when there is none.  Choices
\* are tried in the engine's order: alternatives left to right, repetitions
\* longest first.
RECURSIVE MatchEnd(_, _, _), FirstAlternative(_, _, _, _, _), LongestRepeat(_, _, _, _, _)
MatchEnd(text, re, i) ==
    IF Len(re) = 0 THEN i
    ELSE LET e == Head(re)
             rest == Tail(re)
         IN  CASE e.t = "lit" ->
                    IF /\ i + Len(e.s) - 1 <= Len(text)
                       /\ SubSeq(text, i, i + Len(e.s) - 1) = e.s
                    THEN MatchEnd(text, rest, i + Len(e.s))
                    ELSE 0
               [] e.t = "alt" -> FirstAlternative(text, e.alts, rest, i, 1)
               [] e.t = "rep" ->
                    LongestRepeat(text, rest, i, RunLength(text, i, e.cls), e.min)
               [] e.t = "wb" ->
                    IF IsWordAt(text, i - 1) # IsWordAt(text, i)
                    THEN MatchEnd(text, rest, i)
                    ELSE 0
               [] e.t = "notahead" ->
                    IF MatchEnd(text, e.re, i) = 0 THEN MatchEnd(text, rest, i) ELSE 0
               [] e.t = "notbehind" ->
                    IF \E j \in 1..i : MatchEnd(text, e.re \o <<EndsAt(i)>>, j) # 0
                    THEN 0
                    ELSE MatchEnd(text, rest, i)
               [] e.t = "at" ->
                    IF i = e.pos THEN MatchEnd(text, rest, i) ELSE 0

FirstAlternative(text, alts, rest, i, a) ==
    IF a > Len(alts) THEN 0
    ELSE LET end == MatchEnd(text, alts[a] \o rest, i)
         IN  IF end # 0 THEN end ELSE FirstAlternative(text, alts, rest, i, a + 1)

LongestRepeat(text, rest, i, n, min) ==
    LET counts == {m \in min..n : MatchEnd(text, rest, i + m) # 0}
    IN  IF counts = {} THEN 0
        ELSE MatchEnd(text, rest, i + (CHOOSE m \in counts : \A k \in counts : k <= m))

\* String.prototype.match(pattern) and RegExp.prototype.test on the text
\* whose lower-cased form is lowered: <<start, end>> of the leftmost match
\* (end is the position after it), <<0, 0>> when the pattern does not match.
Exec(lowered, re) ==
    LET starts == {i \in 1..(Len(lowered) + 1) : MatchEnd(lowered, re, i) # 0}
    IN  IF starts = {} THEN <<0, 0>>
        ELSE LET first == CHOOSE i \in starts : \A k \in starts : i <= k
             IN  <<first, MatchEnd(lowered, re, first)>>

(***************************************************************************)
(* POSITIVE_PATTERNS and NEGATIVE_PATTERNS.                                *)
(***************************************************************************)
PositiveKeys ==
    <<"frameworkReference", "jtbdQuestion", "humility", "caseStudy", "constraints", "story">>
NegativeKeys == <<"overconfidence", "dismissive", "generic">>

POSITIVE_PATTERNS ==
    [frameworkReference |->
        << <<Lit("job"), Opt(<<Lit("s")>>), DashOrSpace, Lit("to"), DashOrSpace, Lit("be"),
             DashOrSpace, Lit("done")>>,
           <<Lit("jtbd")>>,
           <<Lit("disruption")>>,
           <<Lit("disruptive")>>,
           <<Lit("sustaining")>>,
           <<Lit("capabilities"), Plus("commaspace"), Lit("processes"), Plus("commaspace"),
             Opt(<<Lit("and"), Plus("space")>>), Lit("priorities")>>,
           <<Lit("cpp")>>,
           <<Lit("resource dependence")>> >>,
     jtbdQuestion |->
        << <<Lit("what job")>>,
           <<Lit("hiring"), Star("any"),
             Alt(<< <<Lit("product")>>, <<Lit("solution")>>, <<Lit("this")>> >>)>>,
           <<Lit("functional"), Star("any"), Lit("emotional"), Star("any"), Lit("social")>>,
           <<Lit("circumstance")>>,
           <<Lit("what are they firing")>> >>,
     humility |->
        << <<Lit("theory "), Opt(<<Alt(<< <<Lit("would ")>>, <<Lit("might ")>> >>)>>),
             Alt(<< <<Lit("suggest")>>, <<Lit("predict")>> >>)>>,
           <<Lit("i"), Opt(<<Lit("'")>>), Lit("ve seen this pattern")>>,
           <<Lit("help me understand")>>,
           <<Lit("the question "), Alt(<< <<Lit("is")>>, <<Lit("might be")>> >>)>>,
           <<Lit("appropriate uncertainty")>>,
           <<Lit("might be different")>>,
           <<Lit("depends on")>> >>,
     caseStudy |->
        << <<Lit("mini"), Opt(<<DashOrSpace>>), Lit("mill"), Opt(<<Lit("s")>>)>>,
           <<Lit("steel")>>,
           <<Lit("disk drive")>>,
           <<Lit("milkshake")>>,
           <<Lit("honda")>>,
           <<Lit("intel")>>,
           <<Lit("microprocessor")>> >>,
     constraints |->
        << <<Lit("resource provider")>>,
           <<Lit("business model")>>,
           <<Lit("priorit"), Alt(<< <<Lit("y")>>, <<Lit("ies")>> >>)>>,
           <<Lit("process"), Opt(<<Lit("es")>>)>>,
           <<Lit("what would need to change")>> >>,
     story |->
        << <<Lit("let me "), Alt(<< <<Lit("tell you")>>, <<Lit("share")>> >>)>>,
           <<Lit("story")>>,
           <<Lit("example")>>,
           <<Lit("i"), Opt(<<Lit("'")>>), Lit("m reminded of")>>,
           <<Lit("consider "), Alt(<< <<Lit("the case")>>, <<Lit("how")>> >>)>> >>]

NEGATIVE_PATTERNS ==
    [overconfidence |->
        << <<WordBoundary, Lit("will definitely"), WordBoundary>>,
           <<WordBoundary, Lit("will certainly"), WordBoundary>>,
           <<WordBoundary, Lit("guaranteed"), WordBoundary>>,
           <<WordBoundary, Lit("will always"), WordBoundary>>,
           <<WordBoundary, Lit("no doubt"), WordBoundary>>,
           <<WordBoundary, Lit("100%"), WordBoundary>> >>,
     dismissive |->
        << <<NotBehind(<<Lit("not that"), Star("notdot")>>), WordBoundary, Lit("stupid"),
             WordBoundary, NotAhead(<<Star("notdot"), Lit("rational")>>)>>,
           <<WordBoundary, Lit("obviously wrong"), WordBoundary>>,
           <<WordBoundary, Lit("terrible idea"), WordBoundary>>,
           <<WordBoundary, Lit("that"), Opt(<<Lit("'")>>), Lit("s "),
             Alt(<< <<Lit("dumb")>>, <<Lit("idiotic")>> >>), WordBoundary>>,
           <<WordBoundary, Lit("you"), Opt(<<Lit("'")>>), Lit("re wrong"), WordBoundary>> >>,
     generic |->
        << <<WordBoundary, Lit("just focus on execution"), WordBoundary>>,
           <<WordBoundary, Lit("here"), Opt(<<Lit("'")>>), Lit("s a "), Plus("digit"),
             DashOrSpace, Lit("step plan"), WordBoundary>>,
           <<WordBoundary, Lit("best practices say"), WordBoundary>>,
           <<WordBoundary, Lit("industry standard"), WordBoundary>> >>]

(***************************************************************************)
(* Fidelity scoring.                                                       *)
(***************************************************************************)
\* A variant of the context test without the empathy pattern.
isChristensenStupidContext_ValidationOnly(lowered) ==
    Exec(lowered, <<Lit("dismissing"), Star("notdot"), Lit("stupid")>>)[1] # 0

\* A variant of the context test whose empathy pattern stops at "stupid".
isChristensenStupidContext_NoRational(lowered) ==
    \/ Exec(lowered, <<Lit("not that"), Star("notdot"), Lit("stupid")>>)[1] # 0
    \/ Exec(lowered, <<Lit("dismissing"), Star("notdot"), Lit("stupid")>>)[1] # 0

\* isChristensenStupidContext, on the lower-cased text.
isChristensenStupidContext(lowered) ==
    LET empathyPattern ==
            <<Lit("not that"), Star("notdot"), Lit("stupid"), Star("notdot"), Lit("rational")>>
        validationPattern == <<Lit("dismissing"), Star("notdot"), Lit("stupid")>>
    IN  Exec(lowered, empathyPattern)[1] # 0 \/ Exec(lowered, validationPattern)[1] # 0

\* findMatches: the excerpts pushed for the first n patterns.  category is
\* "" when the call passes none.
RECURSIVE findMatchesUpTo(_, _, _, _, _)
findMatchesUpTo(text, lowered, patterns, category, n) ==
    IF n = 0 THEN <<>>
    ELSE LET prev == findMatchesUpTo(text, lowered, patterns, category, n - 1)
             match == Exec(lowered, patterns[n])
             excerpt == SubSeq(text, match[1], match[2] - 1)
         IN  IF match[1] = 0 THEN prev
             ELSE IF /\ category = "dismissive"
                     /\ includes(toLowerCase(excerpt), "stupid")
                     /\ isChristensenStupidContext(lowered)
                  THEN prev
                  ELSE Append(prev, excerpt)

\* A variant that drops every dismissive match of a text in the empathetic
\* context, whatever the match holds.
findMatches_DropsAllInContext(text, patterns, category) ==
    IF category = "dismissive" /\ isChristensenStupidContext(toLowerCase(text))
    THEN <<>>
    ELSE findMatchesUpTo(text, toLowerCase(text), patterns, category, Len(patterns))

\* A variant that pushes an excerpt once more when it occurs again later in
\* the text, as a scan for every occurrence would.
findMatches_EveryOccurrence(text, patterns, category) ==
    LET lowered == toLowerCase(text)
        first == findMatchesUpTo(text, lowered, patterns, category, Len(patterns))
        again(excerpt) ==
            \E i \in 1..Len(lowered), j \in 1..(Len(lowered) - Len(excerpt) + 1) :
                /\ i + Len(excerpt) <= j
                /\ SubSeq(lowered, i, i + Len(excerpt) - 1) = toLowerCase(excerpt)
                /\ SubSeq(lowered, j, j + Len(excerpt) - 1) = toLowerCase(excerpt)
    IN  first \o SelectSeq(first, again)

findMatches(text, patterns, category) ==
    findMatchesUpTo(text, toLowerCase(text), patterns, category, Len(patterns))

\* One entry of breakdown or antiPatterns, after its found flag is set.
Marker(found) == [found |-> Len(found) > 0, matches |-> found]

\* filter(Boolean).length
CountTrue(items) == Cardinality({k \in 1..Len(items) : items[k]})

\* A variant of the overall score without the lower clamp.
Overall_NoFloor(rawScore, antiPatternPenalty) ==
    Min(100, rawScore - antiPatternPenalty)

\* Math.max(0, Math.min(100, rawScore - antiPatternPenalty))
Overall(rawScore, antiPatternPenalty) ==
    Max(0, Min(100, rawScore - antiPatternPenalty))

\* A variant of the pass rule that requires all five must-includes.
Passed_AllFive(mustIncludeScore, antiPatterns) ==
    /\ mustIncludeScore >= 5
    /\ ~antiPatterns.dismissive.found
    /\ ~antiPatterns.overconfidence.found

\* A variant of the pass rule without the must-include minimum.
Passed_NoMinimum(mustIncludeScore, antiPatterns) ==
    /\ ~antiPatterns.dismissive.found
    /\ ~antiPatterns.overconfidence.found

\* mustIncludeScore >= 4 && !dismissive.found && !overconfidence.found
Passed(mustIncludeScore, antiPatterns) ==
    /\ mustIncludeScore >= 4
    /\ ~antiPatterns.dismissive.found
    /\ ~antiPatterns.overconfidence.found

\* A variant of the penalty with the same weight for every category.
AntiPatternPenalty_Flat(antiPatterns) ==
    (IF antiPatterns.overconfidence.found THEN 10 ELSE 0)
      + (IF antiPatterns.dismissive.found THEN 10 ELSE 0)
      + (IF antiPatterns.generic.found THEN 10 ELSE 0)

\* The anti-pattern penalty.
AntiPatternPenalty(antiPatterns) ==
    (IF antiPatterns.overconfidence.found THEN 10 ELSE 0)
      + (IF antiPatterns.dismissive.found THEN 15 ELSE 0)
      + (IF antiPatterns.generic.found THEN 5 ELSE 0)

\* The positive patterns found in the text.
Breakdown(text) ==
    [frameworkReference |-> Marker(findMatches(text, markers.positive.frameworkReference, "")),
     jtbdQuestion |-> Marker(findMatches(text, markers.positive.jtbdQuestion, "")),
     humility |-> Marker(findMatches(text, markers.positive.humility, "")),
     caseStudy |-> Marker(findMatches(text, markers.positive.caseStudy, "")),
     constraints |-> Marker(findMatches(text, markers.positive.constraints, "")),
     story |-> Marker(findMatches(text, markers.positive.story, ""))]

\* The anti-patterns found in the text.
AntiPatterns(text) ==
    [overconfidence |-> Marker(findMatches(text, markers.negative.overconfidence, "overconfidence")),
     dismissive |-> Marker(findMatches(text, markers.negative.dismissive, "dismissive")),
     generic |-> Marker(findMatches(text, markers.negative.generic, ""))]

\* A variant of the must-include count that also counts the story.
MustIncludeScore_WithStory(breakdown) ==
    CountTrue(<<breakdown.frameworkReference.found,
                breakdown.jtbdQuestion.found,
                breakdown.humility.found,
                breakdown.caseStudy.found,
                breakdown.constraints.found,
                breakdown.story.found>>)

\* mustIncludeItems.filter(Boolean).length
MustIncludeScore(breakdown) ==
    CountTrue(<<breakdown.frameworkReference.found,
                breakdown.jtbdQuestion.found,
                breakdown.humility.found,
                breakdown.caseStudy.found,
                breakdown.constraints.found>>)

\* A variant of the should-include count that asks for one match where
\* the code asks for more than one.
ShouldIncludeScore_AtLeastOne(breakdown) ==
    CountTrue(<<breakdown.story.found,
                Len(breakdown.frameworkReference.matches) > 0,
                Len(breakdown.humility.matches) > 0,
                Len(breakdown.jtbdQuestion.matches) > 0 /\ breakdown.constraints.found>>)

\* shouldIncludeItems.filter(Boolean).length
ShouldIncludeScore(breakdown) ==
    CountTrue(<<breakdown.story.found,
                Len(breakdown.frameworkReference.matches) > 1,
                Len(breakdown.humility.matches) > 1,
                Len(breakdown.jtbdQuestion.matches) > 0 /\ breakdown.constraints.found>>)

\* A variant of the returned score that gives a should-include 5 points.
Scored_HalfShould(breakdown, antiPatterns, mustIncludeScore, shouldIncludeScore, antiPatternPenalty) ==
    [overall |-> Overall(mustIncludeScore * 10 + shouldIncludeScore * 5, antiPatternPenalty),
     breakdown |-> breakdown,
     antiPatterns |-> antiPatterns,
     mustIncludeScore |-> mustIncludeScore,
     shouldIncludeScore |-> shouldIncludeScore,
     antiPatternPenalty |-> antiPatternPenalty,
     passed |-> Passed(mustIncludeScore, antiPatterns)]

\* The returned FidelityScore.
Scored(breakdown, antiPatterns, mustIncludeScore, shouldIncludeScore, antiPatternPenalty) ==
    [overall |-> Overall(mustIncludeScore * 10 + shouldIncludeScore * 10, antiPatternPenalty),
     breakdown |-> breakdown,
     antiPatterns |-> antiPatterns,
     mustIncludeScore |-> mustIncludeScore,
     shouldIncludeScore |-> shouldIncludeScore,
     antiPatternPenalty |-> antiPatternPenalty,
     passed |-> Passed(mustIncludeScore, antiPatterns)]

\* The scores computed from the markers found.
Summed(breakdown, antiPatterns) ==
    Scored(breakdown, antiPatterns, MustIncludeScore(breakdown),
           ShouldIncludeScore(breakdown), AntiPatternPenalty(antiPatterns))

calculateFidelityScore(text) == Summed(Breakdown(text), AntiPatterns(text))

(***************************************************************************)
(* Inputs of calculateFidelityScore: texts made of up to MaxFragments of   *)
(* these sentences, joined by a space.                                     *)
(***************************************************************************)
Fragments ==
    {"Disruption theory might suggest asking what job the steel mini-mills process did.",
     "The question is what job customers are hiring this product to do.",
     "Let me share the Honda story.",
     "Honda, JTBD and sustaining innovation",
     "This will definitely work, guaranteed.",
     "That is a terrible idea.",
     "The plan is stupid.",
     "It's not that managers are stupid - they're rational.",
     "Dismissing rivals as stupid is a mistake.",
     "He is not that stupid.",
     "Just focus on execution.",
     "Best practices say this will certainly work."}

Texts == {join(fs, " ") : fs \in SeqsUpTo(Fragments, MaxFragments)}

(***************************************************************************)
(* The calls of matchToCaseStudies.                                        *)
(***************************************************************************)
NoScore == [called |-> FALSE]
NoAnalysis == [given |-> FALSE]
NotAssessed == "not assessed"
NoRequest == [name |-> ""]
NoResponse == [sent |-> FALSE]

\* null, the initial value of cachedPersona and the value of an empty YAML
\* document.
Null == [kind |-> "null"]

\* A value of the interface PersonaDefinition, as parseYaml returns it for
\* a persona file that has every section.  The texts are those of the file.
Persona(name, phrases) ==
    [kind |-> "object", complete |-> TRUE,
     identity |-> [name |-> name],
     voice |-> [characteristic_phrases |-> phrases]]

ChristensenPersona ==
    Persona("Clayton Christensen",
            <<"Let me share a story that might be helpful...",
              "The theory would predict...">>)

\* A file that holds the YAML document doc.
FileOf(doc) == [kind |-> "document", value |-> doc]

\* The module-level state after the modules are loaded, before any call.
Loaded ==
    /\ library = CANONICAL_CASES
    /\ markers = [positive |-> POSITIVE_PATTERNS, negative |-> NEGATIVE_PATTERNS]
    /\ history = <<>>
    /\ request = NoRequest
    /\ response = NoResponse
    /\ cachedPersona = Null
    /\ personaFile = FileOf(ChristensenPersona)
    /\ random = 0
    /\ analysis = NoAnalysis
    /\ primaryBlocker = NotAssessed

InitRank ==
    /\ pc = "ready"
    /\ signals \in SeqsUpTo(Observations, MaxSignals)
    /\ matches = <<>>
    /\ output = ""
    /\ score = NoScore
    /\ Loaded

\* A call of matchToCaseStudies(signals).
MatchCall ==
    /\ pc = "ready"
    /\ pc' = "done"
    /\ matches' = matchToCaseStudies(signals)
    /\ UNCHANGED <<signals, output, score, library, markers, history, request, response,
                 cachedPersona, personaFile, random,
                   analysis, primaryBlocker>>

NextRank == MatchCall

SpecRank == InitRank /\ [][NextRank]_vars

(***************************************************************************)
(* The calls of calculateFidelityScore.                                    *)
(***************************************************************************)
InitScore ==
    /\ pc = "ready"
    /\ signals = <<>>
    /\ matches = <<>>
    /\ output \in Texts
    /\ score = NoScore
    /\ Loaded

\* A call of calculateFidelityScore(output).
ScoreCall ==
    /\ pc = "ready"
    /\ pc' = "done"
    /\ score' = calculateFidelityScore(output)
    /\ UNCHANGED <<signals, matches, output, library, markers, history, request, response,
                 cachedPersona, personaFile, random,
                   analysis, primaryBlocker>>

NextScore == ScoreCall

SpecScore == InitScore /\ [][NextScore]_vars

(***************************************************************************)
(* Properties of matchToCaseStudies.                                       *)
(***************************************************************************)
ResultKeys == {matches[i].key : i \in 1..Len(matches)}

\* The user signals of the call that match at least one signal of a case study.
MatchingUserSignals(sigs, key) ==
    {n \in 1..Len(sigs) :
        \E j \in 1..Len(CANONICAL_CASES[key].signals) :
            Matches(sigs[n], CANONICAL_CASES[key].signals[j])}

\* The signals of a case study matched by at least one user signal of the call.
MatchedCaseSignals(sigs, key) ==
    {j \in 1..Len(CANONICAL_CASES[key].signals) :
        \E n \in 1..Len(sigs) : Matches(sigs[n], CANONICAL_CASES[key].signals[j])}

\* C1: a case study appears in the result of matchToCaseStudies if and only
\* if at least one user signal matches at least one of its signals; it
\* appears once, with matchCount >= 1, and the empty list of user signals
\* gives the empty result.
C1_AppearsIffMatched ==
    pc = "done" =>
        /\ ResultKeys = {key \in CaseKeySet : MatchingUserSignals(signals, key) # {}}
        /\ Len(matches) = Cardinality(ResultKeys)
        /\ \A i \in 1..Len(matches) : matches[i].matchCount >= 1
        /\ (signals = <<>> => matches = <<>>)

\* C1 witness: a call with user signals that returns some case studies and
\* leaves others out.
C1_Witness ==
    /\ pc = "done"
    /\ Len(signals) > 0
    /\ Len(matches) > 0
    /\ Len(matches) < Len(CaseKeys)

\* C2 as stated: matchCount is the number of distinct signals of the case
\* study matched by at least one user signal.
C2_CountsDistinctCaseSignals ==
    pc = "done" =>
        \A i \in 1..Len(matches) :
            matches[i].matchCount = Cardinality(MatchedCaseSignals(signals, matches[i].key))

\* C2 amended: matchCount is the number of user signals (counted with
\* repetition) that match at least one signal of the case study, and
\* matchedSignals lists, for each of them in order, the first signal of the
\* case study it matches.
C2_CountsMatchingUserSignals ==
    pc = "done" =>
        \A i \in 1..Len(matches) :
            LET key == matches[i].key
                caseSignals == CANONICAL_CASES[key].signals
                hits == MatchingUserSignals(signals, key)
            IN  /\ matches[i].matchCount = Cardinality(hits)
                /\ Len(matches[i].matchedSignals) = Cardinality(hits)
                /\ \A m \in 1..Len(matches[i].matchedSignals) :
                      \E n \in hits :
                          /\ Cardinality({h \in hits : h <= n}) = m
                          /\ \E j \in 1..Len(caseSignals) :
                                /\ matches[i].matchedSignals[m] = caseSignals[j]
                                /\ Matches(signals[n], caseSignals[j])
                                /\ \A k \in 1..(j - 1) : ~Matches(signals[n], caseSignals[k])

\* C2 witness: a returned case study whose matchCount differs from the number
\* of its distinct matched signals.
C2_Witness ==
    /\ pc = "done"
    /\ \E i \in 1..Len(matches) :
          matches[i].matchCount # Cardinality(MatchedCaseSignals(signals, matches[i].key))

\* C3 as stated: the observation of Scenario A returns exactly one result,
\* for the steel mini-mills, with matchCount 1 and tier low.
C3_ScenarioAReturnsSteel ==
    (pc = "done" /\ signals = <<ScenarioA>>) =>
        /\ Len(matches) = 1
        /\ matches[1].key = "steel_minimills"
        /\ matches[1].matchCount = 1
        /\ matches[1].matchStrength = "low"

\* C3 amended: the observation of Scenario A ("entrant has a fundamentally
\* ...") returns the empty list; the observation that keeps the descriptor's
\* leading 20 characters ("entrant has fundamentally ...") returns exactly
\* one result, for the steel mini-mills, with matchCount 1 and tier low.
C3_ScenarioAReturnsNothing ==
    /\ (pc = "done" /\ signals = <<ScenarioA>>) => matches = <<>>
    /\ (pc = "done" /\ signals = <<ScenarioALiteral>>) =>
          /\ Len(matches) = 1
          /\ matches[1].key = "steel_minimills"
          /\ matches[1].name = "Steel Mini-Mills"
          /\ matches[1].matchedSignals = <<"Entrant has fundamentally different cost structure">>
          /\ matches[1].matchCount = 1
          /\ matches[1].matchStrength = "low"

\* C3 witness: the call of Scenario A has returned.
C3_Witness == pc = "done" /\ signals = <<ScenarioA>>

\* C4: in the result every high reference precedes every medium one and
\* every medium one every low one; references of the same tier keep the
\* declaration order of CANONICAL_CASES.
C4_SortedByTierStable ==
    pc = "done" =>
        \A i, j \in 1..Len(matches) :
            i < j =>
                /\ StrengthOrder(matches[i].matchStrength) <= StrengthOrder(matches[j].matchStrength)
                /\ matches[i].matchStrength = matches[j].matchStrength
                      => DeclIndex(matches[i].key) < DeclIndex(matches[j].key)

\* C4 witness: a result in which the sort moved a later case study in front
\* of an earlier one, and which holds two references of one tier.
C4_Witness ==
    /\ pc = "done"
    /\ \E i, j \in 1..Len(matches) :
          i < j /\ DeclIndex(matches[i].key) > DeclIndex(matches[j].key)
    /\ \E i, j \in 1..Len(matches) :
          i < j /\ matches[i].matchStrength = matches[j].matchStrength

\* C5: every returned reference is high when its matchCount >= 3, medium
\* when it is 2 and low when it is 1; no other tier occurs.
C5_TierFromMatchCount ==
    pc = "done" =>
        \A i \in 1..Len(matches) :
            /\ matches[i].matchStrength \in {"high", "medium", "low"}
            /\ matches[i].matchCount >= 3 <=> matches[i].matchStrength = "high"
            /\ matches[i].matchCount = 2 <=> matches[i].matchStrength = "medium"
            /\ matches[i].matchCount = 1 <=> matches[i].matchStrength = "low"

\* C5 witness: one result holds a high, a medium and a low reference.
C5_Witness ==
    /\ pc = "done"
    /\ \A t \in {"high", "medium", "low"} :
          \E i \in 1..Len(matches) : matches[i].matchStrength = t

\* The containment test as the specification words it, character by
\* character: s holds, somewhere, the first PrefixLen characters of t, letter
\* case apart.
HoldsLeadingFragment(s, t) ==
    LET m == Min(PrefixLen, Len(t))
    IN  \E i \in 0..(Len(s) - m) :
            \A k \in 1..m :
                toLowerChar(SubSeq(s, i + k, i + k)) = toLowerChar(SubSeq(t, k, k))

\* toUpperCase of the inputs of the model, computed once.
UpperCased ==
    UNION {{<<s, toUpperCase(s)>>} : s \in Observations \cup AllCaseSignals}

UpperCaseOf(s) == (CHOOSE p \in UpperCased : p[1] = s)[2]

FragmentPairs ==
    UNION {{<<u, c>> : c \in {d \in AllCaseSignals :
                                 HoldsLeadingFragment(u, d) \/ HoldsLeadingFragment(d, u)}} :
           u \in Observations}

\* C6: a user signal and a case signal match exactly when one of them,
\* case-folded, contains the first 20 characters of the other, case-folded;
\* changing the letter case of either string does not change the outcome.
C6_FoldedContainment ==
    pc = "done" =>
        \A n \in 1..Len(signals) :
            \A d \in AllCaseSignals :
                /\ Matches(signals[n], d) <=> <<signals[n], d>> \in FragmentPairs
                /\ Matches(UpperCaseOf(signals[n]), d) <=> Matches(signals[n], d)
                /\ Matches(signals[n], UpperCaseOf(d)) <=> Matches(signals[n], d)

\* C6 witness: a call whose user signal has upper-case letters and matches a
\* case signal, returned.
C6_Witness ==
    /\ pc = "done"
    /\ \E n \in 1..Len(signals) :
          /\ signals[n] # toLowerCase(signals[n])
          /\ \E d \in AllCaseSignals : Matches(signals[n], d)
    /\ Len(matches) > 0

\* The user signals with a space put in front of, or after, each of them.
LeadingPadded(sigs) == [n \in 1..Len(sigs) |-> " " \o sigs[n]]
TrailingPadded(sigs) == [n \in 1..Len(sigs) |-> sigs[n] \o " "]

\* The user signals with a space put after those of at least PrefixLen characters.
TrailingPaddedLong(sigs) ==
    [n \in 1..Len(sigs) |-> IF Len(sigs[n]) >= PrefixLen THEN sigs[n] \o " " ELSE sigs[n]]

\* C7 as stated: whitespace added in front of or after the user signals
\* does not change the result.
C7_WhitespaceIgnored ==
    pc = "done" =>
        /\ matchToCaseStudies(LeadingPadded(signals)) = matches
        /\ matchToCaseStudies(TrailingPadded(signals)) = matches

\* C7 amended: user signals are case-folded but not trimmed, whitespace
\* counts in the containment test; whitespace added after a user signal of at
\* least 20 characters never removes a case study from the result nor lowers
\* its matchCount (it can add matches), while whitespace in front of a user
\* signal, or after a shorter one, can change the result either way.
C7_TrailingWhitespaceKeepsMatches ==
    pc = "done" =>
        LET padded == matchToCaseStudies(TrailingPaddedLong(signals))
        IN  \A i \in 1..Len(matches) :
                \E j \in 1..Len(padded) :
                    /\ padded[j].key = matches[i].key
                    /\ padded[j].matchCount >= matches[i].matchCount

\* C7 witness: a call that returned a case study and whose result grows when
\* a space is added after its long user signals.
C7_Witness ==
    /\ pc = "done"
    /\ Len(matches) > 0
    /\ \E n \in 1..Len(signals) : Len(signals[n]) >= PrefixLen
    /\ matchToCaseStudies(TrailingPaddedLong(signals)) # matches

(***************************************************************************)
(* Properties of calculateFidelityScore.                                   *)
(***************************************************************************)
Clamp(x, lo, hi) == IF x < lo THEN lo ELSE IF x > hi THEN hi ELSE x

\* C8: overall is mustIncludeScore*10 + shouldIncludeScore*10 -
\* antiPatternPenalty clamped to 0..100, so it always lies in 0..100.
C8_OverallClamped ==
    pc = "done" =>
        /\ score.overall =
              Clamp(score.mustIncludeScore * 10 + score.shouldIncludeScore * 10
                      - score.antiPatternPenalty, 0, 100)
        /\ score.overall >= 0
        /\ score.overall <= 100

\* C8 witness: a scored text whose penalty exceeds its points, so that the
\* clamp acts.
C8_Witness ==
    /\ pc = "done"
    /\ score.mustIncludeScore * 10 + score.shouldIncludeScore * 10 < score.antiPatternPenalty
    /\ score.overall = 0

Occurrences(s, t) ==
    {i \in 1..(Len(s) - Len(t) + 1) : SubSeq(s, i, i + Len(t) - 1) = t}

\* No full stop at the positions a..b of s.
NoStopBetween(s, a, b) == \A k \in a..b : CharAt(s, k) # "."

\* t occurs in s at or after position from, with no full stop between from
\* and its first character.
LaterInSentence(s, from, t) ==
    \E k \in Occurrences(s, t) : k >= from /\ NoStopBetween(s, from, k - 1)

\* t occurs in s so that it ends before position upto, with no full stop
\* between its last character and upto.
EarlierInSentence(s, upto, t) ==
    \E i \in Occurrences(s, t) : i + Len(t) <= upto /\ NoStopBetween(s, i + Len(t), upto - 1)

\* The positions of the word "stupid" in the lower-cased text.
StupidWords(lowered) ==
    {j \in Occurrences(lowered, "stupid") : ~IsWordAt(lowered, j - 1) /\ ~IsWordAt(lowered, j + 6)}

\* The exoneration phrase: "not that", "stupid" and "rational" in this order
\* with no full stop from the end of "not that" to "rational".
ExonerationPhrase(lowered) ==
    \E j \in Occurrences(lowered, "stupid") :
        /\ EarlierInSentence(lowered, j, "not that")
        /\ LaterInSentence(lowered, j + 6, "rational")

\* "dismissing" and a later "stupid" with no full stop between them.
DismissingPhrase(lowered) ==
    \E j \in Occurrences(lowered, "stupid") : EarlierInSentence(lowered, j, "dismissing")

\* A dismissive pattern other than the one of "stupid" matches the text.
OtherDismissive(lowered) ==
    \E k \in 2..Len(NEGATIVE_PATTERNS.dismissive) :
        Exec(lowered, NEGATIVE_PATTERNS.dismissive[k])[1] # 0

\* The penalty of the categories other than dismissive.
PenaltyOfOthers ==
    (IF score.antiPatterns.overconfidence.found THEN 10 ELSE 0)
      + (IF score.antiPatterns.generic.found THEN 5 ELSE 0)

\* C11: when the exoneration phrase occurs anywhere in the text, no match
\* of "stupid" is kept in the dismissive category, whatever sentence it is
\* in: the category is found only through its other patterns and the
\* penalty holds 15 only then.
C11_ExonerationVoidsTrigger ==
    (pc = "done" /\ ExonerationPhrase(toLowerCase(output))) =>
        /\ \A n \in 1..Len(score.antiPatterns.dismissive.matches) :
              ~includes(toLowerCase(score.antiPatterns.dismissive.matches[n]), "stupid")
        /\ score.antiPatterns.dismissive.found <=> OtherDismissive(toLowerCase(output))
        /\ score.antiPatternPenalty =
              PenaltyOfOthers + (IF OtherDismissive(toLowerCase(output)) THEN 15 ELSE 0)

\* C11 witness: a scored text with the exoneration phrase and, in another
\* sentence, the word "stupid" that the dismissive pattern matches by
\* itself; the category is not found and the penalty is 0.
C11_Witness ==
    /\ pc = "done"
    /\ ExonerationPhrase(toLowerCase(output))
    /\ \E j \in StupidWords(toLowerCase(output)) :
          /\ ~EarlierInSentence(toLowerCase(output), j, "not that")
          /\ ~LaterInSentence(toLowerCase(output), j + 6, "rational")
    /\ ~score.antiPatterns.dismissive.found
    /\ score.antiPatternPenalty = 0

RequiredKeys == {"frameworkReference", "jtbdQuestion", "humility", "caseStudy", "constraints"}
ForbiddenKeys == {"overconfidence", "dismissive", "generic"}

\* C13: mustIncludeScore is the number of found categories among the five
\* required ones, each found exactly when it has a match; the story
\* category does not count, and the score lies in 0..5.
C13_RequiredCount ==
    pc = "done" =>
        /\ score.mustIncludeScore =
              Cardinality({key \in RequiredKeys : score.breakdown[key].found})
        /\ \A key \in RequiredKeys \cup {"story"} :
              score.breakdown[key].found <=> Len(score.breakdown[key].matches) > 0
        /\ score.mustIncludeScore >= 0
        /\ score.mustIncludeScore <= 5

\* C13 witness: a scored text with the story category found and a required
\* category not found.
C13_Witness ==
    /\ pc = "done"
    /\ score.breakdown.story.found
    /\ score.mustIncludeScore >= 1
    /\ score.mustIncludeScore < 5

\* The four recommended checks, read off the category results.
RecommendedChecks ==
    <<score.breakdown.story.found,
      Len(score.breakdown.frameworkReference.matches) > 1,
      Len(score.breakdown.humility.matches) > 1,
      score.breakdown.jtbdQuestion.found /\ score.breakdown.constraints.found>>

\* C14: shouldIncludeScore is the number of true checks among: story
\* found, more than one framework match, more than one humility match,
\* jtbdQuestion and constraints both found; it lies in 0..4.
C14_RecommendedCount ==
    pc = "done" =>
        /\ score.shouldIncludeScore =
              Cardinality({k \in 1..4 : RecommendedChecks[k]})
        /\ score.shouldIncludeScore >= 0
        /\ score.shouldIncludeScore <= 4

\* C14 witness: a scored text with exactly one framework match and exactly
\* one humility match, which count for nothing, and a true check.
C14_Witness ==
    /\ pc = "done"
    /\ Len(score.breakdown.frameworkReference.matches) = 1
    /\ Len(score.breakdown.humility.matches) = 1
    /\ score.breakdown.jtbdQuestion.found
    /\ score.breakdown.constraints.found
    /\ score.shouldIncludeScore = 1

\* C15: a text with a match in each of the five required categories and no
\* match kept in a forbidden category has mustIncludeScore 5, overall
\* 50 + shouldIncludeScore * 10 and passed = TRUE.
C15_AllRequiredNoForbidden ==
    ( /\ pc = "done"
      /\ \A key \in RequiredKeys : Len(score.breakdown[key].matches) > 0
      /\ \A key \in ForbiddenKeys : Len(score.antiPatterns[key].matches) = 0 ) =>
        /\ score.mustIncludeScore = 5
        /\ score.overall = 50 + score.shouldIncludeScore * 10
        /\ score.passed

\* C15 witness: such a text with two recommended checks true, scored 70.
C15_Witness ==
    /\ pc = "done"
    /\ \A key \in RequiredKeys : Len(score.breakdown[key].matches) > 0
    /\ \A key \in ForbiddenKeys : Len(score.antiPatterns[key].matches) = 0
    /\ score.shouldIncludeScore = 2
    /\ score.overall = 70
    /\ score.passed

\* The fields of a returned FidelityScore.
ScoreFields ==
    {"overall", "breakdown", "antiPatterns", "mustIncludeScore", "shouldIncludeScore",
     "antiPatternPenalty", "passed"}

\* C16: every call returns a score, and the score of the empty string has
\* mustIncludeScore 0, shouldIncludeScore 0, antiPatternPenalty 0, overall 0
\* and passed = FALSE, with no category found and no match.
C16_EmptyText ==
    pc = "done" =>
        /\ DOMAIN score = ScoreFields
        /\ output = "" =>
              /\ score.mustIncludeScore = 0
              /\ score.shouldIncludeScore = 0
              /\ score.antiPatternPenalty = 0
              /\ score.overall = 0
              /\ ~score.passed
              /\ \A key \in RequiredKeys \cup {"story"} :
                    score.breakdown[key] = [found |-> FALSE, matches |-> <<>>]
              /\ \A key \in ForbiddenKeys :
                    score.antiPatterns[key] = [found |-> FALSE, matches |-> <<>>]

\* C16 witness: the empty string, scored.
C16_Witness ==
    /\ pc = "done"
    /\ output = ""
    /\ score.overall = 0

(***************************************************************************)
(* Sequences of calls.  matchToCaseStudies and calculateFidelityScore are  *)
(* synchronous, so a call runs to its end before the next one starts; a    *)
(* call reads the module-level objects and writes only to objects it       *)
(* creates.                                                                *)
(***************************************************************************)
MaxCalls == 4

CallSignals == {<<"">>, <<"an unexpected customer", "new form factor">>}

CallTexts ==
    {"The plan is stupid.",
     "Disruption theory might suggest asking what job the steel mini-mills process did."}

InitCalls ==
    /\ pc = "ready"
    /\ signals = <<>>
    /\ matches = <<>>
    /\ output = ""
    /\ score = NoScore
    /\ Loaded

\* A variant of the call that removes from the library the descriptors it
\* matched.
Rank_ConsumesMatched(sigs) ==
    /\ Len(history) < MaxCalls
    /\ pc' = "done"
    /\ signals' = sigs
    /\ matches' = matchToCaseStudies(sigs)
    /\ history' = Append(history, [call |-> "rank", signals |-> sigs, output |-> "",
                                   matches |-> matches', score |-> NoScore])
    /\ library' =
          [key \in DOMAIN library |->
              [library[key] EXCEPT
                  !.signals = SelectSeq(@, LAMBDA c : \A n \in 1..Len(sigs) : ~Matches(sigs[n], c))]]
    /\ UNCHANGED <<output, score, markers, request, response,
                 cachedPersona, personaFile, random,
                   analysis, primaryBlocker>>

\* A call of matchToCaseStudies(sigs) after the calls of history.
Rank(sigs) ==
    /\ Len(history) < MaxCalls
    /\ pc' = "done"
    /\ signals' = sigs
    /\ matches' = matchToCaseStudies(sigs)
    /\ history' = Append(history, [call |-> "rank", signals |-> sigs, output |-> "",
                                   matches |-> matches', score |-> NoScore])
    /\ UNCHANGED <<output, score, library, markers, request, response,
                 cachedPersona, personaFile, random,
                   analysis, primaryBlocker>>

\* A call of calculateFidelityScore(text) after the calls of history.
ScoreText(text) ==
    /\ Len(history) < MaxCalls
    /\ pc' = "done"
    /\ output' = text
    /\ score' = calculateFidelityScore(text)
    /\ history' = Append(history, [call |-> "score", signals |-> <<>>, output |-> text,
                                   matches |-> <<>>, score |-> score'])
    /\ UNCHANGED <<signals, matches, library, markers, request, response,
                 cachedPersona, personaFile, random,
                   analysis, primaryBlocker>>

NextCalls ==
    \/ \E sigs \in CallSignals : Rank(sigs)
    \/ \E text \in CallTexts : ScoreText(text)

SpecCalls == InitCalls /\ [][NextCalls]_vars

CaseNameEnum ==
    {"steel_minimills", "disk_drives", "milkshake", "honda_motorcycles", "intel_microprocessors"}

\* The keys of CASE_STUDY_EXTENSIONS.
ExtensionKeys == {"steel_minimills", "disk_drives", "milkshake", "honda_motorcycles", "intel_microprocessors"}

CASE_STUDY_EXTENSIONS ==
    [key \in ExtensionKeys |->
       CASE key = "steel_minimills" ->
         [keyTakeaways |->
            <<"Asymmetric motivation is the key - incumbents are RELIEVED to cede low-margin segments",
              "The retreat looks rational at every step, but the trajectory leads to disaster",
              "Cost structure differences create permanently different incentives",
              "Quality improvement in the 'inferior' technology is the warning sign">>,
          commonMisapplications |->
            <<"Assuming any low-cost competitor is disruptive (sustaining low-cost is different)",
              "Ignoring the improvement trajectory of the entrant",
              "Forgetting that mini-mills had fundamentally different cost structures, not just lower prices">>,
          questionsToAsk |->
            <<"Does the entrant have a fundamentally different cost structure?",
              "Are incumbents relieved or threatened by losing this segment?",
              "Is the entrant improving along a trajectory toward mainstream needs?",
              "What's the next tier the entrant might target?">>]
          [] key = "disk_drives" ->
         [keyTakeaways |->
            <<"Existing customers can actively mislead you about future threats",
              "New value networks have different performance metrics entirely",
              "Being 'worse' on current metrics can mean being 'better' on future metrics",
              "The pattern repeated across 5 generations - it's predictable">>,
          commonMisapplications |->
            <<"Assuming all new form factors are disruptive",
              "Ignoring that disruption requires a new value network, not just new technology",
              "Forgetting the role of enabled applications in driving adoption">>,
          questionsToAsk |->
            <<"What new applications does this enable that weren't possible before?",
              "What performance dimensions matter in this new context?",
              "Are existing customers explicitly saying they don't want this?",
              "What value network would this create or serve?">>]
          [] key = "milkshake" ->
         [keyTakeaways |->
            <<"The job, not the customer, is the unit of analysis",
              "Same product can be hired for completely different jobs",
              "Circumstance dramatically changes the job to be done",
              "Competition is defined by the job, not the product category">>,
          commonMisapplications |->
            <<"Treating all customer feedback as equivalent regardless of circumstance",
              "Segmenting by demographics instead of jobs",
              "Assuming competitors are other products in the same category">>,
          questionsToAsk |->
            <<"What job is being done in THIS specific circumstance?",
              "What would the customer hire if your product didn't exist?",
              "Are there different jobs for different times/places/contexts?",
              "What are the functional, emotional, and social dimensions?">>]
          [] key = "honda_motorcycles" ->
         [keyTakeaways |->
            <<"Initial strategy hypotheses are often wrong",
              "Markets teach you your strategy if you're willing to learn",
              "Unexpected customer segments can be more valuable than target segments",
              "Creating a new category avoids head-to-head competition">>,
          commonMisapplications |->
            <<"Using this to justify pivoting without market evidence",
              "Ignoring the discipline Honda had in their original approach",
              "Forgetting that Honda eventually did move upmarket successfully">>,
          questionsToAsk |->
            <<"What unexpected demand are you seeing?",
              "Who is buying that you didn't expect?",
              "What are they using it for that you didn't anticipate?",
              "Are you willing to follow the market's teaching?">>]
          [] key = "intel_microprocessors" ->
         [keyTakeaways |->
            <<"Processes transfer; resources don't guarantee success",
              "Capability migration requires recognizing what you're actually good at",
              "The underlying skill matters more than the specific product",
              "Priorities must shift to enable the transition">>,
          commonMisapplications |->
            <<"Assuming any adjacent market is accessible",
              "Focusing on resources without examining processes",
              "Ignoring the difficulty of priority shifts">>,
          questionsToAsk |->
            <<"What processes have you developed that could transfer?",
              "What are you actually good at, underneath the current product?",
              "Would your priorities allow you to invest in this new direction?",
              "Is there a clear path from current capabilities to the new opportunity?">>]]

\* A function call that returns a text, and one that throws.
Returned(lines) == [outcome |-> "returned", text |-> lines]
Thrown(message) == [outcome |-> "thrown", text |-> <<message>>]

\* The line that stands for prose copied from a constant.
Prose(what) == "<" \o what \o ">"

\* items.map((s) => `- ${s}`)
Bullets(items) == [k \in 1..Len(items) |-> "- " \o items[k]]

\* The message of a missing case study.
NotFound(caseName) == "Case study \"" \o caseName \o "\" not found."

\* The text of getCaseStudyDetail for a case study of the library that has
\* an extension.
CaseStudyDocument(caseName) ==
    LET caseStudy == library[caseName]
        extension == CASE_STUDY_EXTENSIONS[caseName]
    IN  <<"# " \o caseStudy.name, "",
          "## Pattern", "**" \o caseStudy.pattern \o "**", "",
          "## The Story", Prose("story of " \o caseName), "",
          "## Signals That Match This Pattern">>
        \o Bullets(caseStudy.signals)
        \o <<"", "## Key Takeaways">> \o Bullets(extension.keyTakeaways)
        \o <<"", "## Common Misapplications">> \o Bullets(extension.commonMisapplications)
        \o <<"", "## Questions to Ask">> \o Bullets(extension.questionsToAsk)
        \o <<"", "## Lesson for Today", Prose("lessonsForToday of " \o caseName)>>

\* A variant of the lookup without the test of caseStudy: the template
\* reads caseStudy.name of undefined.
getCaseStudyDetail_NoGuard(caseName) ==
    IF caseName \notin DOMAIN library
    THEN Thrown("Cannot read properties of undefined (reading 'name')")
    ELSE IF caseName \notin DOMAIN CASE_STUDY_EXTENSIONS
    THEN Thrown("Cannot read properties of undefined (reading 'keyTakeaways')")
    ELSE Returned(CaseStudyDocument(caseName))

\* getCaseStudyDetail.  CANONICAL_CASES[caseName] is undefined for a name
\* that is not a key of the library; a case study without an extension
\* makes extension.keyTakeaways throw.
getCaseStudyDetail(caseName) ==
    IF caseName \notin DOMAIN library
    THEN Returned(<<NotFound(caseName)>>)
    ELSE IF caseName \notin DOMAIN CASE_STUDY_EXTENSIONS
    THEN Thrown("Cannot read properties of undefined (reading 'keyTakeaways')")
    ELSE Returned(CaseStudyDocument(caseName))

\* Object.keys(CANONICAL_CASES).find((k) => CANONICAL_CASES[k].name === name) ?? ""
KeyOfName(name) ==
    LET found == {k \in 1..Len(CaseKeys) : library[CaseKeys[k]].name = name}
    IN  IF found = {} THEN ""
        ELSE CaseKeys[CHOOSE k \in found : \A other \in found : k <= other]

\* The indicator words of matchSituationToCases, with the name and the key
\* of the case study each group suggests, in the order of the tests.
SituationIndicators ==
    << [words |-> {"cost", "cheap", "low-end"},
        name |-> "Steel Mini-Mills", key |-> "steel_minimills"],
       [words |-> {"new market", "form factor", "portable"},
        name |-> "Disk Drive Generations", key |-> "disk_drives"],
       [words |-> {"job", "hire", "circumstance"},
        name |-> "The Milkshake Story", key |-> "milkshake"],
       [words |-> {"pivot", "unexpected", "surprise"},
        name |-> "Honda Motorcycles in America", key |-> "honda_motorcycles"],
       [words |-> {"capability", "process", "declining"},
        name |-> "Intel's Pivot to Microprocessors", key |-> "intel_microprocessors"] >>

\* additionalMatches after the first n tests.
RECURSIVE AdditionalMatches(_, _, _)
AdditionalMatches(situationLower, found, n) ==
    IF n = 0 THEN <<>>
    ELSE LET prev == AdditionalMatches(situationLower, found, n - 1)
             test == SituationIndicators[n]
         IN  IF /\ \E w \in test.words : includes(situationLower, w)
                /\ \A m \in 1..Len(found) : found[m].name # test.name
             THEN Append(prev, test.key)
             ELSE prev

\* `- ${CANONICAL_CASES[c]?.name}: ${CANONICAL_CASES[c]?.pattern}`
SuggestionLine(c) ==
    IF c \in DOMAIN library
    THEN "- " \o library[c].name \o ": " \o library[c].pattern
    ELSE "- undefined: undefined"

\* The block of one matched case study, before the join with "\n---\n".
MatchBlock(m, detail) ==
    <<"", "### " \o m.name,
      "**Pattern**: " \o m.pattern,
      "**Relevance**: " \o m.relevance,
      "**Match Strength**: " \o m.matchStrength, "">>
    \o detail.text \o <<"">>

\* blocks.join("\n---\n")
RECURSIVE JoinBlocks(_)
JoinBlocks(blocks) ==
    IF Len(blocks) = 0 THEN <<>>
    ELSE IF Len(blocks) = 1 THEN blocks[1]
    ELSE blocks[1] \o <<"---">> \o JoinBlocks(Tail(blocks))

HowToApply ==
    <<"---", "", "## How to Apply This", "",
      "When you've identified a matching pattern, ask:",
      "1. What made the historical actors succeed or fail?",
      "2. What's similar about your situation?",
      "3. What's different that might change the outcome?",
      "4. What would Christensen's theory predict for your case?", "",
      "Remember: Theory predicts patterns, not specific outcomes. Use these cases",
      "to sharpen your thinking, not as rigid prescriptions.">>

\* The first part of the text: the situation and the observed signals.
SituationSection(situation, sigs) ==
    <<"# Case Study Analysis", "", "## Your Situation", situation, "",
      "## Observed Signals">>
    \o (IF Len(sigs) > 0 THEN Bullets(sigs) ELSE <<"No specific signals provided.">>)
    \o <<"", "---", "", "## Matched Case Studies", "">>

\* The section of the matched case studies, or of the suggestions when
\* nothing matched.
MatchedSection(found, details, additionalMatches) ==
    IF Len(found) > 0
    THEN JoinBlocks([m \in 1..Len(found) |-> MatchBlock(found[m], details[m])])
    ELSE <<"", "No strong matches based on the signals provided.", "",
           "Consider exploring these cases to find the best pattern match:">>
         \o [k \in 1..Len(additionalMatches) |-> SuggestionLine(additionalMatches[k])]
         \o <<"">>

\* The outcome of the first getCaseStudyDetail that throws, when one does.
FirstThrown(details) ==
    details[CHOOSE m \in DOMAIN details :
                /\ details[m].outcome = "thrown"
                /\ \A k \in 1..(m - 1) : details[k].outcome # "thrown"]

\* The text for the matches found and the detail of each.
SituationText(situation, sigs, found, details) ==
    IF \E m \in DOMAIN details : details[m].outcome = "thrown"
    THEN FirstThrown(details)
    ELSE Returned(
            SituationSection(situation, sigs)
            \o MatchedSection(found, details,
                    AdditionalMatches(toLowerCase(situation), found,
                                      Len(SituationIndicators)))
            \o HowToApply)

\* The detail of each matched case study, looked up by its name.
MatchDetails(found) ==
    [m \in 1..Len(found) |-> getCaseStudyDetail(KeyOfName(found[m].name))]

\* matchSituationToCases, given the value of matchToCaseStudies.
SituationMatches(situation, sigs, found) ==
    SituationText(situation, sigs, found, MatchDetails(found))

\* matchSituationToCases.
matchSituationToCases(situation, sigs) ==
    SituationMatches(situation, sigs, matchToCaseStudies(sigs))

\* An argument object has the fields it was given: f is one of them.
Has(args, f) == f \in DOMAIN args

\* caseStudySchema.parse: the name of the first field that fails, "" when
\* the input is valid.  The fields a request carries hold values of their
\* declared types, so a field fails by its absence or by a value outside
\* its enum.
CaseStudyIssue(input) ==
    IF ~Has(input, "situation") THEN "situation"
    ELSE IF Has(input, "caseName") /\ input.caseName \notin CaseNameEnum THEN "caseName"
    ELSE ""

ZodError(field) == "<ZodError at " \o field \o ">"

\* validated.observedSignals ?? []
ValidatedSignals(input) ==
    IF Has(input, "observedSignals") THEN input.observedSignals ELSE <<>>

\* findCaseStudy.
findCaseStudy(input) ==
    IF CaseStudyIssue(input) # "" THEN Thrown(ZodError(CaseStudyIssue(input)))
    ELSE IF Has(input, "caseName") THEN getCaseStudyDetail(input.caseName)
    ELSE matchSituationToCases(input.situation, ValidatedSignals(input))

\* listCaseStudies.
listCaseStudies ==
    <<"# Christensen Canonical Case Studies", "",
      "These five cases illustrate the core patterns of disruption theory:", "",
      "## 1. Steel Mini-Mills",
      "**Pattern**: Low-end disruption with asymmetric motivation",
      "**Key Lesson**: Incumbents rationally retreat from low-margin segments, enabling entrants to build capabilities for upmarket assault.",
      "",
      "## 2. Disk Drive Generations",
      "**Pattern**: New-market disruption with different value network",
      "**Key Lesson**: Being \"worse\" on existing metrics but enabling new applications creates new markets that eventually subsume old ones.",
      "",
      "## 3. The Milkshake Story",
      "**Pattern**: Jobs-to-be-done discovery through circumstance",
      "**Key Lesson**: Same product, different jobs, different competitors. The job is the unit of analysis.",
      "",
      "## 4. Honda Motorcycles in America",
      "**Pattern**: Emergent strategy through market learning",
      "**Key Lesson**: Markets teach you your strategy. Listen to unexpected demand.",
      "",
      "## 5. Intel's Pivot to Microprocessors",
      "**Pattern**: Capability migration through process investment",
      "**Key Lesson**: Processes transfer more reliably than resources. Know what you're actually good at.",
      "", "---", "",
      "Use the case_study tool with a specific caseName to explore any of these in depth,",
      "or describe your situation to find the most relevant pattern.">>

(***************************************************************************)
(* The get_framework tool (tools/get-framework.ts).  The lists a template  *)
(* copies from a table other than the diagnostic questions are kept as one *)
(* line that names the table.                                              *)
(***************************************************************************)
\* JTBD_DIAGNOSTIC_QUESTIONS (frameworks/jobs-to-be-done.ts).
JTBD_DIAGNOSTIC_QUESTIONS ==
    <<[question |-> "What job is the customer hiring this product to do?",
      importance |-> "critical"],
      [question |-> "What are the functional, emotional, and social dimensions of that job?",
      importance |-> "critical"],
      [question |-> "What circumstance triggers the need for this job?",
      importance |-> "critical"],
      [question |-> "What are they firing to hire your product?",
      importance |-> "important"],
      [question |-> "What would cause them to fire your product?",
      importance |-> "important"],
      [question |-> "Who struggles to get this job done today?",
      importance |-> "important"],
      [question |-> "What are customers doing when they're NOT hiring your product?",
      importance |-> "contextual"],
      [question |-> "What workarounds have customers created?",
      importance |-> "contextual"]>>

\* DISRUPTION_DIAGNOSTIC_QUESTIONS (frameworks/disruption.ts).
DISRUPTION_DIAGNOSTIC_QUESTIONS ==
    <<[question |-> "Is this innovation sustaining or disruptive relative to existing solutions?",
      importance |-> "critical"],
      [question |-> "Who are the non-consumers who might value this?",
      importance |-> "critical"],
      [question |-> "What are incumbents over-serving in their current customers?",
      importance |-> "critical"],
      [question |-> "What would make existing customers consider this 'good enough'?",
      importance |-> "important"],
      [question |-> "Is there a low-end segment being ignored for profit reasons?",
      importance |-> "important"],
      [question |-> "What business model enables this to be profitable at lower price points?",
      importance |-> "important"],
      [question |-> "Why would incumbents rationally choose not to respond?",
      importance |-> "critical"],
      [question |-> "What trajectory of improvement is the entrant on?",
      importance |-> "important"]>>

\* CPP_DIAGNOSTIC_QUESTIONS (frameworks/capabilities.ts).
CPP_DIAGNOSTIC_QUESTIONS ==
    <<[question |-> "Do you have the resources to pursue this?",
      importance |-> "important"],
      [question |-> "Do your processes support or hinder this new approach?",
      importance |-> "critical"],
      [question |-> "Does this align with how you prioritize opportunities?",
      importance |-> "critical"],
      [question |-> "What would need to change in how you work, not just what you have?",
      importance |-> "critical"],
      [question |-> "Will your current business model let you prioritize this?",
      importance |-> "critical"]>>

\* RESOURCE_DEPENDENCE_QUESTIONS (frameworks/capabilities.ts).
RESOURCE_DEPENDENCE_QUESTIONS ==
    <<[question |-> "What do your best customers want you to focus on?",
      importance |-> "critical"],
      [question |-> "What would happen if you shifted resources to this new opportunity?",
      importance |-> "critical"],
      [question |-> "Who controls the resources you need?",
      importance |-> "critical"],
      [question |-> "Does pursuing this threaten your relationship with key resource providers?",
      importance |-> "critical"],
      [question |-> "What would your investors think of this direction?",
      importance |-> "important"],
      [question |-> "What are your key customers asking for right now?",
      importance |-> "important"]>>

\* The values of the framework and detail enums of getFrameworkSchema.
FrameworkEnum == {"jtbd", "disruption", "cpp", "resource-dependence", "all"}
DetailEnum == {"summary", "full", "questions-only"}

\* The keys of FRAMEWORK_SUMMARIES, in declaration order.
FrameworkKeys == <<"jtbd", "disruption", "cpp", "resource-dependence">>

\* FRAMEWORK_SUMMARIES: the heading lines of each summary; its paragraphs are
\* left out.
FRAMEWORK_SUMMARIES ==
    [key \in {FrameworkKeys[k] : k \in 1..Len(FrameworkKeys)} |->
       CASE key = "jtbd" ->
              <<"# Jobs-to-Be-Done Framework",
                "## Core Insight",
                "## Key Concepts",
                "### The Job",
                "### Circumstance",
                "### Competing with Nothing",
                "## When to Use">>
         [] key = "disruption" ->
              <<"# Disruption Theory",
                "## Core Insight",
                "## Key Concepts",
                "### Sustaining Innovation",
                "### Low-End Disruption",
                "### New-Market Disruption",
                "### Asymmetric Motivation",
                "## When to Use">>
         [] key = "cpp" ->
              <<"# Capabilities-Processes-Priorities Framework",
                "## Core Insight",
                "## Key Concepts",
                "### Resources",
                "### Processes",
                "### Priorities (Values)",
                "## The Key Insight",
                "## When to Use">>
         [] key = "resource-dependence" ->
              <<"# Resource Dependence Theory",
                "## Core Insight",
                "## The Tragedy",
                "## Key Dynamics",
                "## How This Creates Blindspots",
                "## When to Use">>]

\* The diagnostic questions of a framework.
DiagnosticQuestions(framework) ==
    CASE framework = "jtbd" -> JTBD_DIAGNOSTIC_QUESTIONS
      [] framework = "disruption" -> DISRUPTION_DIAGNOSTIC_QUESTIONS
      [] framework = "cpp" -> CPP_DIAGNOSTIC_QUESTIONS
      [] framework = "resource-dependence" -> RESOURCE_DEPENDENCE_QUESTIONS

\* questions.map((q) => `- ${q.question}`)
QuestionLines(questions) == [k \in 1..Len(questions) |-> "- " \o questions[k].question]

\* questions.map((q) => `- **[${q.importance}]** ${q.question}`)
RatedQuestionLines(questions) ==
    [k \in 1..Len(questions) |->
        "- **[" \o questions[k].importance \o "]** " \o questions[k].question]

getJTBDFull ==
    FRAMEWORK_SUMMARIES["jtbd"]
    \o <<"", "---", "", "## Diagnostic Questions", "">>
    \o RatedQuestionLines(JTBD_DIAGNOSTIC_QUESTIONS)
    \o <<"", "### Follow-up Questions by Dimension", "",
         "**Functional**:", Prose("JTBD_FOLLOWUP_QUESTIONS.functional"), "",
         "**Emotional**:", Prose("JTBD_FOLLOWUP_QUESTIONS.emotional"), "",
         "**Social**:", Prose("JTBD_FOLLOWUP_QUESTIONS.social"), "",
         "**Circumstance**:", Prose("JTBD_FOLLOWUP_QUESTIONS.circumstance"), "",
         "---", "", "## Canonical Example: The Milkshake Story", "",
         Prose("MILKSHAKE_STORY.story"), "",
         "**Key Lesson**: " \o Prose("MILKSHAKE_STORY.lesson"), "",
         "---", "", "## Christensen's Voice on JTBD", "",
         Prose("JTBD_VOICE_PHRASES")>>

getDisruptionFull ==
    FRAMEWORK_SUMMARIES["disruption"]
    \o <<"", "---", "", "## Classification Signals", "",
         "### Sustaining Innovation Signals", Prose("SUSTAINING_SIGNALS"), "",
         "### Low-End Disruption Signals", Prose("LOW_END_DISRUPTION_SIGNALS"), "",
         "### New-Market Disruption Signals", Prose("NEW_MARKET_DISRUPTION_SIGNALS"), "",
         "---", "", "## Diagnostic Questions", "">>
    \o RatedQuestionLines(DISRUPTION_DIAGNOSTIC_QUESTIONS)
    \o <<"", "---", "", "## Christensen's Voice on Disruption", "",
         Prose("DISRUPTION_VOICE_PHRASES")>>

getCPPFull ==
    FRAMEWORK_SUMMARIES["cpp"]
    \o <<"", "---", "", "## Diagnostic Questions", "", "### Overall CPP Assessment">>
    \o RatedQuestionLines(CPP_DIAGNOSTIC_QUESTIONS)
    \o <<"", "### Resource-Specific Questions", Prose("RESOURCE_QUESTIONS"), "",
         "### Process-Specific Questions", Prose("PROCESS_QUESTIONS"), "",
         "### Priorities-Specific Questions", Prose("PRIORITIES_QUESTIONS"), "",
         "---", "", "## Christensen's Voice on CPP", "",
         Prose("CPP_VOICE_PHRASES")>>

getResourceDependenceFull ==
    FRAMEWORK_SUMMARIES["resource-dependence"]
    \o <<"", "---", "", "## Diagnostic Questions", "">>
    \o RatedQuestionLines(RESOURCE_DEPENDENCE_QUESTIONS)
    \o <<"", "---", "", "## Christensen's Voice on Resource Dependence", "",
         Prose("RESOURCE_DEPENDENCE_VOICE_PHRASES")>>

getQuestionsOnly(framework) ==
    CASE framework = "jtbd" ->
            <<"# Jobs-to-Be-Done: Key Questions", "">>
            \o QuestionLines(JTBD_DIAGNOSTIC_QUESTIONS)
      [] framework = "disruption" ->
            <<"# Disruption Theory: Key Questions", "">>
            \o QuestionLines(DISRUPTION_DIAGNOSTIC_QUESTIONS)
      [] framework = "cpp" ->
            <<"# Capabilities-Processes-Priorities: Key Questions", "">>
            \o QuestionLines(CPP_DIAGNOSTIC_QUESTIONS)
      [] framework = "resource-dependence" ->
            <<"# Resource Dependence: Key Questions", "">>
            \o QuestionLines(RESOURCE_DEPENDENCE_QUESTIONS)
      [] OTHER -> <<"Unknown framework">>

\* getFrameworkSchema.parse: the name of the first field that fails, "" when
\* the input is valid.
FrameworkIssue(input) ==
    IF ~Has(input, "framework") \/ input.framework \notin FrameworkEnum THEN "framework"
    ELSE IF Has(input, "detail") /\ input.detail \notin DetailEnum THEN "detail"
    ELSE ""

\* The detail of the validated input: .optional().default("summary").
ValidatedDetail(input) == IF Has(input, "detail") THEN input.detail ELSE "summary"

\* The text getFramework returns for a validated framework and detail.
FrameworkText(framework, detail) ==
    IF framework = "all"
    THEN IF detail = "questions-only"
         THEN <<"# All Christensen Frameworks: Key Questions", "", "## Jobs-to-Be-Done">>
              \o QuestionLines(JTBD_DIAGNOSTIC_QUESTIONS)
              \o <<"", "## Disruption Theory">>
              \o QuestionLines(DISRUPTION_DIAGNOSTIC_QUESTIONS)
              \o <<"", "## Capabilities-Processes-Priorities">>
              \o QuestionLines(CPP_DIAGNOSTIC_QUESTIONS)
              \o <<"", "## Resource Dependence">>
              \o QuestionLines(RESOURCE_DEPENDENCE_QUESTIONS)
         ELSE FRAMEWORK_SUMMARIES["jtbd"] \o <<"", "---", "">>
              \o FRAMEWORK_SUMMARIES["disruption"] \o <<"", "---", "">>
              \o FRAMEWORK_SUMMARIES["cpp"] \o <<"", "---", "">>
              \o FRAMEWORK_SUMMARIES["resource-dependence"]
    ELSE IF detail = "questions-only" THEN getQuestionsOnly(framework)
    ELSE IF detail = "full"
    THEN CASE framework = "jtbd" -> getJTBDFull
           [] framework = "disruption" -> getDisruptionFull
           [] framework = "cpp" -> getCPPFull
           [] framework = "resource-dependence" -> getResourceDependenceFull
    ELSE IF framework \in DOMAIN FRAMEWORK_SUMMARIES
         THEN FRAMEWORK_SUMMARIES[framework]
         ELSE <<"Unknown framework">>

\* getFramework.
getFramework(input) ==
    IF FrameworkIssue(input) # "" THEN Thrown(ZodError(FrameworkIssue(input)))
    ELSE Returned(FrameworkText(input.framework, ValidatedDetail(input)))

(***************************************************************************)
(* The persona loader (persona-loader.ts).  The file christensen.yaml is   *)
(* read at run time: it may be missing, unreadable, not YAML, an empty     *)
(* document, or the document of a persona.                                 *)
(***************************************************************************)
MissingFile == [kind |-> "missing"]
UnreadableFile == [kind |-> "unreadable"]
MalformedFile == [kind |-> "malformed"]

\* The persona of a file that was edited: the loader reads the file at run
\* time so that a persona can be updated without recompiling.
EditedPersona ==
    Persona("Clayton M. Christensen", <<"I have a theory about that.">>)

\* A document that is an object without the sections of a persona.
IncompletePersona == [kind |-> "object", complete |-> FALSE]

PersonaFiles ==
    {MissingFile, UnreadableFile, MalformedFile, FileOf(Null),
     FileOf(IncompletePersona), FileOf(ChristensenPersona), FileOf(EditedPersona)}

\* A call that returns a value, and one that throws an Error with a message.
Value(v) == [outcome |-> "returned", value |-> v]
Raised(message) == [outcome |-> "thrown", message |-> message]

\* loadPersona(personaName) when the file is `file`: readFileSync throws
\* ENOENT for a missing file, which becomes "Persona not found"; any other
\* error of readFileSync or parseYaml is thrown again as it is.
loadPersona(personaName, file) ==
    CASE file.kind = "missing" -> Raised("Persona not found: " \o personaName)
      [] file.kind = "unreadable" -> Raised("EACCES: permission denied, open")
      [] file.kind = "malformed" -> Raised("<YAMLParseError>")
      [] OTHER -> Value(file.value)

loadChristensenPersona(file) == loadPersona("christensen", file)

\* !cachedPersona
NotCached(cache) == cache = Null

\* A variant that loads the file on every call.
getPersona_NoCache(cache, file) ==
    [read |-> TRUE,
     result |-> loadChristensenPersona(file),
     cache |-> IF loadChristensenPersona(file).outcome = "thrown"
               THEN cache ELSE loadChristensenPersona(file).value]

\* getPersona() with the cache `cache` and the file `file`: whether the file
\* is read, the outcome of the call and the cache after it.  An exception of
\* loadChristensenPersona leaves the assignment undone.
getPersona(cache, file) ==
    IF NotCached(cache)
    THEN [read |-> TRUE,
          result |-> loadChristensenPersona(file),
          cache |-> IF loadChristensenPersona(file).outcome = "thrown"
                    THEN cache ELSE loadChristensenPersona(file).value]
    ELSE [read |-> FALSE, result |-> Value(cache), cache |-> cache]

(***************************************************************************)
(* Sequences of getPersona calls, while the file may be replaced.          *)
(***************************************************************************)
MaxPersonaCalls == 3

InitPersona ==
    /\ pc = "ready"
    /\ signals = <<>>
    /\ matches = <<>>
    /\ output = ""
    /\ score = NoScore
    /\ library = CANONICAL_CASES
    /\ markers = [positive |-> POSITIVE_PATTERNS, negative |-> NEGATIVE_PATTERNS]
    /\ history = <<>>
    /\ request = NoRequest
    /\ response = NoResponse
    /\ cachedPersona = Null
    /\ personaFile \in PersonaFiles
    /\ random = 0
    /\ analysis = NoAnalysis
    /\ primaryBlocker = NotAssessed

\* A call of getPersona(); history records what the call did.
GetPersonaCall ==
    /\ Len(history) < MaxPersonaCalls
    /\ cachedPersona' = getPersona(cachedPersona, personaFile).cache
    /\ history' = Append(history, [call |-> "getPersona",
                                   read |-> getPersona(cachedPersona, personaFile).read,
                                   result |-> getPersona(cachedPersona, personaFile).result])
    /\ pc' = "done"
    /\ UNCHANGED <<signals, matches, output, score, library, markers, request, response,
                   personaFile, random,
                   analysis, primaryBlocker>>

\* The file is replaced between two calls.
ReplaceFile(file) ==
    /\ Len(history) < MaxPersonaCalls
    /\ file # personaFile
    /\ personaFile' = file
    /\ UNCHANGED <<pc, signals, matches, output, score, library, markers, history,
                   request, response, cachedPersona, random,
                   analysis, primaryBlocker>>

NextPersona ==
    \/ GetPersonaCall
    \/ \E file \in PersonaFiles : ReplaceFile(file)

SpecPersona == InitPersona /\ [][NextPersona]_vars

\* A call of history that returned a persona: a value other than null.
Succeeded(entry) ==
    entry.result.outcome = "returned" /\ entry.result.value # Null

\* C22: in every sequence of getPersona calls the file is read on a call
\* exactly when no earlier call returned a persona; once a call has
\* returned a persona every later call returns that same object without
\* reading the file, whatever the file has become; and while no call has
\* returned one, the cache is empty.
C22_LoadsUntilFirstSuccess ==
    /\ \A k \in DOMAIN history :
          history[k].read <=> (\A j \in 1..(k - 1) : ~Succeeded(history[j]))
    /\ \A j, k \in DOMAIN history :
          (j < k /\ Succeeded(history[j])) => history[k].result = history[j].result
    /\ (cachedPersona = Null) <=> (\A k \in DOMAIN history : ~Succeeded(history[k]))

\* A failed call, then a call that loads, then a call served from the cache
\* although the file has been replaced.
C22_Witness ==
    /\ Len(history) = 3
    /\ history[1].result.outcome = "thrown" /\ history[1].read
    /\ Succeeded(history[2]) /\ history[2].read
    /\ ~history[3].read /\ history[3].result = history[2].result
    /\ personaFile # FileOf(history[2].result.value)

(***************************************************************************)
(* The analyze_decision tool (tools/analyze-decision.ts).  A text is a     *)
(* sequence of lines; a line that carries a text of the caller carries it  *)
(* whole, with the line breaks it has.                                     *)
(***************************************************************************)
FocusAreaEnum == {"jtbd", "disruption", "cpp", "resource-dependence"}

Elements(list) == {list[k] : k \in 1..Len(list)}

\* analyzeDecisionSchema.parse: the name of the first field that fails, ""
\* when the input is valid.  The fields an input carries hold values of
\* their declared types, so a field fails by its absence or by a value
\* outside its enum.
AnalyzeIssue(input) ==
    IF ~Has(input, "decision") THEN "decision"
    ELSE IF Has(input, "organization") /\ ~Has(input.organization, "type")
    THEN "organization"
    ELSE IF Has(input, "focusAreas") /\ ~(Elements(input.focusAreas) \subseteq FocusAreaEnum)
    THEN "focusAreas"
    ELSE ""

\* input.focusAreas ?? ["jtbd", "disruption", "cpp", "resource-dependence"]
FocusAreas(input) ==
    IF Has(input, "focusAreas") THEN input.focusAreas
    ELSE <<"jtbd", "disruption", "cpp", "resource-dependence">>

\* A field that is present and truthy: a string that is not empty.
Truthy(obj, f) == Has(obj, f) /\ obj[f] # ""

\* obj.f?.length: a list that is present and not empty.
HasItems(obj, f) == Has(obj, f) /\ Len(obj[f]) > 0

\* The part of contextString that the organization adds.
OrganizationContext(org) ==
    "\n\nOrganization: " \o org.type
    \o (IF Truthy(org, "size") THEN ", " \o org.size ELSE "")
    \o (IF Truthy(org, "industry") THEN " in " \o org.industry ELSE "")
    \o (IF Truthy(org, "currentFocus") THEN ". Current focus: " \o org.currentFocus ELSE "")

\* The part of contextString that the market adds.
MarketContext(market) ==
    (IF HasItems(market, "incumbents")
     THEN "\n\nKey incumbents: " \o join(market.incumbents, ", ") ELSE "")
    \o (IF HasItems(market, "competitors")
        THEN "\nDirect competitors: " \o join(market.competitors, ", ") ELSE "")
    \o (IF HasItems(market, "customerSegments")
        THEN "\nTarget segments: " \o join(market.customerSegments, ", ") ELSE "")

\* contextString of buildAnalysisPrompt.
ContextString(input) ==
    (IF Has(input, "context") THEN input.context ELSE "")
    \o (IF Has(input, "organization") THEN OrganizationContext(input.organization) ELSE "")
    \o (IF Has(input, "market") THEN MarketContext(input.market) ELSE "")

\* The text of a generate...Prompt function: its opening, the situation,
\* the context when it is not empty, and its questions.
FrameworkPrompt(opening, label, decision, context, questions) ==
    <<Prose(opening), "", label \o ": " \o decision,
      IF context # "" THEN "CONTEXT: " \o context ELSE "",
      "", Prose(questions)>>

generateJTBDAnalysisPrompt(decision, context) ==
    FrameworkPrompt("Analyze this situation through the Jobs-to-Be-Done lens.",
                    "SITUATION", decision, context, "JTBD questions")

generateDisruptionAnalysisPrompt(situation, context) ==
    FrameworkPrompt("Analyze this situation through the disruption theory lens:",
                    "SITUATION", situation, context, "disruption questions")

generateCPPAnalysisPrompt(opportunity, context) ==
    FrameworkPrompt("Analyze organizational capability for this opportunity",
                    "OPPORTUNITY", opportunity, context, "CPP layers")

generateResourceDependencePrompt(opportunity, context) ==
    FrameworkPrompt("Analyze resource dependence constraints for this opportunity:",
                    "OPPORTUNITY", opportunity, context, "resource dependence questions")

\* The headings of the framework sections, in the order of the four tests
\* of buildAnalysisPrompt.
SectionOrder == <<"jtbd", "disruption", "cpp", "resource-dependence">>

SectionHeading(area) ==
    CASE area = "jtbd" -> "## JOBS-TO-BE-DONE ANALYSIS"
      [] area = "disruption" -> "## DISRUPTION THEORY ANALYSIS"
      [] area = "cpp" -> "## CAPABILITIES-PROCESSES-PRIORITIES ANALYSIS"
      [] area = "resource-dependence" -> "## RESOURCE DEPENDENCE ANALYSIS"

SectionPrompt(area, decision, context) ==
    CASE area = "jtbd" -> generateJTBDAnalysisPrompt(decision, context)
      [] area = "disruption" -> generateDisruptionAnalysisPrompt(decision, context)
      [] area = "cpp" -> generateCPPAnalysisPrompt(decision, context)
      [] area = "resource-dependence" -> generateResourceDependencePrompt(decision, context)

\* The element pushed to frameworkPrompts for one framework.
SectionBlock(area, decision, context) ==
    <<"", SectionHeading(area), "">> \o SectionPrompt(area, decision, context) \o <<"">>

\* A variant of the tests that pushes a section for each element of
\* focusAreas, in the order of focusAreas.
FrameworkPrompts_InFocusOrder(focusAreas, decision, context) ==
    [k \in 1..Len(focusAreas) |-> SectionBlock(focusAreas[k], decision, context)]

\* frameworkPrompts after the four tests focusAreas.includes(...).
FrameworkPrompts(focusAreas, decision, context) ==
    LET included == SelectSeq(SectionOrder, LAMBDA area : area \in Elements(focusAreas))
    IN  [k \in 1..Len(included) |-> SectionBlock(included[k], decision, context)]

\* frameworkPrompts.join("\n---\n"): the empty text for no element.
JoinPrompts(blocks) == IF Len(blocks) = 0 THEN <<"">> ELSE JoinBlocks(blocks)

\* The text buildAnalysisPrompt returns for the decision, the context
\* string and the framework prompts.
AnalysisPrompt(decision, context, prompts) ==
    <<"# Strategic Decision Analysis", "", "## THE DECISION", "", decision, "",
      IF context # "" THEN "## CONTEXT\n\n" \o context ELSE "",
      "", "---", "">>
    \o JoinPrompts(prompts)
    \o <<"", "---", "", "## SYNTHESIS", "", Prose("synthesis")>>

\* buildAnalysisPrompt.
buildAnalysisPrompt(input) ==
    AnalysisPrompt(input.decision, ContextString(input),
                   FrameworkPrompts(FocusAreas(input), input.decision, ContextString(input)))

\* `${validated.decision} ${validated.context ?? ""}`.toLowerCase()
InputText(input) ==
    toLowerCase(input.decision \o " " \o (IF Has(input, "context") THEN input.context ELSE ""))

\* A variant of the tests whose fifth signal has the wording of the library
\* descriptor of the steel mini-mills.
SignalTests_LibraryWording ==
    << [words |-> {"cheap", "low cost", "budget"}, signal |-> "Lower cost structure"],
       [words |-> {"simple", "easier"}, signal |-> "Simpler solution"],
       [words |-> {"enterprise", "upmarket"}, signal |-> "Moving upmarket"],
       [words |-> {"new market", "non-consumer"}, signal |-> "Enables new use cases"],
       [words |-> {"incumbent", "established"},
        signal |-> "Incumbent has high fixed-cost structure"] >>

\* The tests of analyzeDecision on the input text, in their order, each
\* with the signal it pushes.
SignalTests ==
    << [words |-> {"cheap", "low cost", "budget"}, signal |-> "Lower cost structure"],
       [words |-> {"simple", "easier"}, signal |-> "Simpler solution"],
       [words |-> {"enterprise", "upmarket"}, signal |-> "Moving upmarket"],
       [words |-> {"new market", "non-consumer"}, signal |-> "Enables new use cases"],
       [words |-> {"incumbent", "established"}, signal |-> "Incumbent has high-cost structure"] >>

\* potentialSignals after the first n tests.
RECURSIVE PotentialSignals(_, _)
PotentialSignals(inputText, n) ==
    IF n = 0 THEN <<>>
    ELSE IF \E w \in SignalTests[n].words : includes(inputText, w)
    THEN Append(PotentialSignals(inputText, n - 1), SignalTests[n].signal)
    ELSE PotentialSignals(inputText, n - 1)

\* The case studies section of the response.
CaseMatchLines(caseMatches) ==
    IF Len(caseMatches) > 0
    THEN LET Block(c) == <<"", "### " \o c.name,
                           "**Pattern**: " \o c.pattern,
                           "**Relevance**: " \o c.relevance,
                           "**Match Strength**: " \o c.matchStrength, "">>
             RECURSIVE Joined(_)
             Joined(n) == IF n = 0 THEN <<>> ELSE Joined(n - 1) \o Block(caseMatches[n])
         IN  Joined(Len(caseMatches))
    ELSE <<"No strong case study matches detected from initial signals. Deeper analysis may reveal patterns.">>

\* generateSystemPrompt for the value getPersona returned.  Reading a
\* property of null, or of the undefined section of an object without
\* sections, throws a TypeError.
generateSystemPrompt(persona) ==
    IF persona = Null
    THEN Thrown("Cannot read properties of null (reading 'identity')")
    ELSE IF ~persona.complete
    THEN Thrown("Cannot read properties of undefined (reading 'name')")
    ELSE Returned(<<"You are " \o persona.identity.name \o ", " \o Prose("role") \o ".", "",
                    Prose("background"), "", "## Your Voice and Style", "",
                    "Phrases you commonly use:">>
                  \o [k \in 1..Len(persona.voice.characteristic_phrases) |->
                        "- \"" \o persona.voice.characteristic_phrases[k] \o "\""]
                  \o <<"", "## Your Frameworks", "", Prose("frameworks"), "",
                       "## Analysis Approach", "", Prose("approach"), "",
                       "## Important Guidelines", "", Prose("guidelines")>>)

\* The values Math.random() takes, in RandomSteps-ths: r stands for
\* r / RandomSteps, a number of [0, 1).
RandomSteps == 2
Randoms == 0..(RandomSteps - 1)

\* getRandomPhrase: phrases[Math.floor(Math.random() * phrases.length)]
getRandomPhrase(persona, r) ==
    persona.voice.characteristic_phrases[
        ((r * Len(persona.voice.characteristic_phrases)) \div RandomSteps) + 1]

\* The response of analyzeDecision.
AnalysisResponse(phrase, systemPrompt, analysisPrompt, caseMatches) ==
    <<"# Christensen Strategic Analysis Framework", "", phrase, "", "---", "",
      "## System Context", "">>
    \o systemPrompt
    \o <<"", "---", "", "## Analysis Request", "">>
    \o analysisPrompt
    \o <<"", "---", "", "## Potentially Relevant Case Studies", "">>
    \o CaseMatchLines(caseMatches)
    \o <<"", "---", "", "## Framework Reference", "",
         "Available frameworks for this analysis:",
         "- **Jobs-to-Be-Done**: Understanding what job customers hire products to do",
         "- **Disruption Theory**: Classifying innovations and predicting competitive dynamics",
         "- **Capabilities-Processes-Priorities**: Assessing organizational capability",
         "- **Resource Dependence**: Understanding constraints from resource providers",
         "", "Apply each relevant framework to provide Christensen-style strategic insight.">>

\* caseMatches of analyzeDecision for the validated input.
CaseMatches(input) ==
    matchToCaseStudies(PotentialSignals(InputText(input), Len(SignalTests)))

\* analyzeDecision from the call of generateSystemPrompt on, for the
\* outcome `got` of the getPersona call of generateSystemPrompt.  The later
\* getPersona call of getRandomPhrase finds the persona cached.
AnalyzeWith(input, got, r) ==
    IF got.outcome = "thrown" THEN Thrown(got.message)
    ELSE IF generateSystemPrompt(got.value).outcome = "thrown"
    THEN generateSystemPrompt(got.value)
    ELSE Returned(AnalysisResponse(getRandomPhrase(got.value, r),
                                   generateSystemPrompt(got.value).text,
                                   buildAnalysisPrompt(input),
                                   CaseMatches(input)))

\* analyzeDecision, when Math.random() returns r / RandomSteps.
analyzeDecision(input, r) ==
    IF AnalyzeIssue(input) # "" THEN Thrown(ZodError(AnalyzeIssue(input)))
    ELSE AnalyzeWith(input, getPersona(cachedPersona, personaFile).result, r)

\* cachedPersona after analyzeDecision(input).
CacheAfterAnalyze(input) ==
    IF AnalyzeIssue(input) # "" THEN cachedPersona
    ELSE getPersona(cachedPersona, personaFile).cache

(***************************************************************************)
(* The validation test decisions (validation/test-decisions.ts).           *)
(***************************************************************************)
DECISION_1_ANTHROPIC ==
    [name |-> "Anthropic MCP Engineer Role Positioning",
     expectedCaseStudyMatch |-> "honda_motorcycles",
     input |->
       [decision |-> "How should I position myself for the Anthropic MCP Engineer role given my background in MCP server development, Python agents, and healthcare AI?",
        context |-> "\n    I'm a founder/AI engineer with experience building production MCP servers (GRIMLOCK factory, Teletran1, Ratchet healthcare).\n    I have Python agent architecture experience and understand Claude's tool-use paradigm.\n    Competition includes engineers from big tech with more traditional credentials.\n    My differentiator is hands-on MCP ecosystem experience and production agent systems.\n  ",
        organization |->
         [type |-> "Individual job seeker",
          industry |-> "AI/ML",
          currentFocus |-> "MCP server development and agent architecture"],
        market |->
         [incumbents |-> <<"Google", "Microsoft", "OpenAI">>,
          competitors |-> <<"Big tech engineers", "ML researchers", "Traditional software engineers">>,
          customerSegments |-> <<"Anthropic hiring team">>]]]

DECISION_2_FACTORY ==
    [name |-> "Agent Factory Strategy vs Individual Agents",
     expectedCaseStudyMatch |-> "intel_microprocessors",
     input |->
       [decision |-> "Should I focus on building individual high-quality persona agents, or invest in building a repeatable factory process for creating them?",
        context |-> "\n    I've just built the Christensen agent as a proof of concept.\n    Building individual agents has clear value but doesn't scale.\n    A factory process would let me (and others) create agents faster.\n    The market for persona agents is uncertain - not clear if people want this.\n  ",
        organization |->
         [type |-> "Solo founder",
          industry |-> "AI tools",
          currentFocus |-> "MCP server development"],
        market |->
         [incumbents |-> <<"Character.AI", "Replika", "Custom GPTs">>,
          customerSegments |-> <<"AI enthusiasts", "Business users wanting advisors", "Developers building agents">>]]]

DECISION_3_N8N ==
    [name |-> "n8n to Python Migration Timing",
     expectedCaseStudyMatch |-> "intel_microprocessors",
     input |->
       [decision |-> "When should I migrate my n8n workflows to Python/MCP architecture given that n8n currently works but doesn't align with my career positioning?",
        context |-> "\n    I have working n8n workflows that handle automation tasks.\n    My career positioning emphasizes Python agent code over no-code tools.\n    Migration takes time away from building new things.\n    n8n is a weak signal for Anthropic roles; Python MCP servers are strong signals.\n  ",
        organization |->
         [type |-> "Solo founder",
          currentFocus |-> "Transitioning from no-code to code-first"]]]

\* The input runTestDecision passes to analyzeDecision.
TestDecisions == {DECISION_1_ANTHROPIC, DECISION_2_FACTORY, DECISION_3_N8N}

(***************************************************************************)
(* The tools/call request handler (index.ts).  A request has a tool name   *)
(* and may have arguments.                                                 *)
(***************************************************************************)
\* The value the handler returns for the text of a tool.
TextContent(lines) == [sent |-> TRUE, isError |-> FALSE, text |-> lines]

\* The value the catch clause returns: `Error: ${message}`.
ErrorContent(message) == [sent |-> TRUE, isError |-> TRUE, text |-> <<"Error: " \o message>>]

\* A variant of the handler without the catch clause: an exception of a
\* tool leaves the handler and nothing is returned.
Content_NoCatch(result) ==
    IF result.outcome = "thrown"
    THEN [sent |-> FALSE, isError |-> TRUE, text |-> result.text]
    ELSE TextContent(result.text)

\* The value returned for the outcome of an awaited tool function.
Content(result) ==
    IF result.outcome = "thrown" THEN ErrorContent(result.text[1])
    ELSE TextContent(result.text)

\* !args.f for a string field: the field is absent or the empty string.
Falsy(args, f) == ~Has(args, f) \/ args[f] = ""

\* The handler of CallToolRequestSchema.
CallTool(req) ==
    CASE req.name = "analyze_decision" ->
            IF ~Has(req, "arguments") THEN ErrorContent(ZodError("input"))
            ELSE Content(analyzeDecision(req.arguments, random))
      [] req.name = "case_study" ->
            IF ~Has(req, "arguments")
                 \/ (Falsy(req.arguments, "situation") /\ Falsy(req.arguments, "caseName"))
            THEN TextContent(listCaseStudies)
            ELSE Content(findCaseStudy(req.arguments))
      [] req.name = "get_framework" ->
            IF ~Has(req, "arguments") THEN ErrorContent(ZodError("input"))
            ELSE Content(getFramework(req.arguments))
      [] OTHER -> ErrorContent("Unknown tool: " \o req.name)

MaxDecisionFragments == 2

(***************************************************************************)
(* The requests sent to the handler.                                       *)
(***************************************************************************)
Given(v) == [given |-> TRUE, value |-> v]
NoString == [given |-> FALSE, value |-> ""]
NoList == [given |-> FALSE, value |-> <<>>]

Situations ==
    {NoString, Given(""), Given("A cheap rival is growing"),
     Given("We hire for a surprise job")}

SignalLists ==
    {NoList, Given(<<>>), Given(<<"new">>),
     Given(<<"lower cost structure", "Adjacent opportunity emerging">>)}

CaseNames == {NoString, Given("xerox")} \cup {Given(c) : c \in CaseNameEnum}

Frameworks == {NoString, Given("scrum")} \cup {Given(f) : f \in FrameworkEnum}

Details == {NoString, Given("brief")} \cup {Given(d) : d \in DetailEnum}

\* The argument object with the fields that are given.
CaseStudyArguments(s, o, c) ==
    [f \in {g \in {"situation", "observedSignals", "caseName"} :
                \/ g = "situation" /\ s.given
                \/ g = "observedSignals" /\ o.given
                \/ g = "caseName" /\ c.given} |->
        CASE f = "situation" -> s.value
          [] f = "observedSignals" -> o.value
          [] f = "caseName" -> c.value]

FrameworkArguments(w, d) ==
    [f \in {g \in {"framework", "detail"} :
                \/ g = "framework" /\ w.given
                \/ g = "detail" /\ d.given} |->
        CASE f = "framework" -> w.value
          [] f = "detail" -> d.value]

Requests ==
    {[name |-> "case_study", arguments |-> CaseStudyArguments(s, o, c)] :
        s \in Situations, o \in SignalLists, c \in CaseNames}
    \cup {[name |-> "get_framework", arguments |-> FrameworkArguments(w, d)] :
            w \in Frameworks, d \in Details}
    \cup {[name |-> "case_study"], [name |-> "get_framework"], [name |-> "swot"]}

\* The analyze_decision requests: texts that make each test of the input
\* text succeed, alone and together; every selection of focus areas; the
\* inputs of the validation test decisions; inputs the schema rejects.
SignalFragments ==
    {"Should we launch this product?",
     "A cheap rival sells on a low budget.",
     "Our tool is easier to use.",
     "We want to move UPMARKET.",
     "It opens a New Market of non-consumers.",
     "The established incumbents ignore us."}

Decisions == {join(fs, " ") : fs \in SeqsUpTo(SignalFragments, MaxDecisionFragments) \ {<<>>}}

Contexts == {NoString, Given(""), Given("Low cost matters here.\nThe enterprise segment is simple.")}

FocusLists ==
    {NoList, Given(<<>>), Given(<<"cpp", "jtbd">>), Given(<<"disruption", "disruption">>),
     Given(<<"resource-dependence", "cpp", "disruption", "jtbd">>),
     Given(<<"jtbd", "scrum">>)}

NoObject == [given |-> FALSE, value |-> [type |-> ""]]

Organizations ==
    {NoObject,
     Given([type |-> "startup"]),
     Given([type |-> "enterprise", size |-> "5000 people", industry |-> "steel",
            currentFocus |-> "margins"]),
     Given([size |-> "small"])}

Markets ==
    {NoObject,
     Given([incumbents |-> <<"Nucor", "US Steel">>, competitors |-> <<>>]),
     Given([customerSegments |-> <<"builders">>])}

\* The argument object with the fields that are given.
AnalyzeArguments(d, c, o, m, f) ==
    [g \in {h \in {"decision", "context", "organization", "market", "focusAreas"} :
                \/ h = "decision" /\ d.given
                \/ h = "context" /\ c.given
                \/ h = "organization" /\ o.given
                \/ h = "market" /\ m.given
                \/ h = "focusAreas" /\ f.given} |->
        CASE g = "decision" -> d.value
          [] g = "context" -> c.value
          [] g = "organization" -> o.value
          [] g = "market" -> m.value
          [] g = "focusAreas" -> f.value]

AnalyzeRequests ==
    {[name |-> "analyze_decision",
      arguments |-> AnalyzeArguments(Given(d), c, NoObject, NoObject, NoList)] :
        d \in Decisions, c \in Contexts}
    \cup {[name |-> "analyze_decision",
           arguments |-> AnalyzeArguments(Given("Should we enter a new market?"), c, o, m, f)] :
            c \in Contexts, o \in Organizations, m \in Markets, f \in FocusLists}
    \cup {[name |-> "analyze_decision", arguments |-> t.input] : t \in TestDecisions}
    \cup {[name |-> "analyze_decision"],
          [name |-> "analyze_decision",
           arguments |-> AnalyzeArguments(NoString, Given("no decision"), NoObject, NoObject,
                                          NoList)]}

\* The requests that are answered for every state of the persona file.
PersonaProbes ==
    {[name |-> "analyze_decision",
      arguments |-> AnalyzeArguments(Given("Should we enter a new market?"), NoString,
                                     NoObject, NoObject, f)] : f \in FocusLists}
    \cup {[name |-> "analyze_decision"], [name |-> "get_framework"], [name |-> "swot"]}

\* A request, with the persona file and the value of Math.random() it
\* finds.
ToolCalls ==
    {[request |-> req, file |-> FileOf(ChristensenPersona), random |-> 0] : req \in Requests}
    \cup {[request |-> req, file |-> FileOf(ChristensenPersona), random |-> r] :
            req \in AnalyzeRequests, r \in Randoms}
    \cup {[request |-> req, file |-> file, random |-> r] :
            req \in PersonaProbes, file \in PersonaFiles, r \in Randoms}

InitTools ==
    /\ pc = "ready"
    /\ signals = <<>>
    /\ matches = <<>>
    /\ output = ""
    /\ score = NoScore
    /\ library = CANONICAL_CASES
    /\ markers = [positive |-> POSITIVE_PATTERNS, negative |-> NEGATIVE_PATTERNS]
    /\ history = <<>>
    /\ response = NoResponse
    /\ cachedPersona = Null
    /\ \E call \in ToolCalls :
          /\ request = call.request
          /\ personaFile = call.file
          /\ random = call.random
    /\ analysis = NoAnalysis
    /\ primaryBlocker = NotAssessed

\* cachedPersona after the handler has run for the request.
CacheAfter(req) ==
    IF req.name = "analyze_decision" /\ Has(req, "arguments")
    THEN CacheAfterAnalyze(req.arguments)
    ELSE cachedPersona

\* The handler runs for the request.
HandleCall ==
    /\ pc = "ready"
    /\ pc' = "done"
    /\ response' = CallTool(request)
    /\ cachedPersona' = CacheAfter(request)
    /\ UNCHANGED <<signals, matches, output, score, library, markers, history, request,
                   personaFile, random,
                   analysis, primaryBlocker>>

NextTools == HandleCall

SpecTools == InitTools /\ [][NextTools]_vars

(***************************************************************************)
(* Properties of the tools.                                                *)
(***************************************************************************)
\* The request is a case_study request that passes caseStudySchema and
\* names a case study.
NamesCase ==
    /\ request.name = "case_study"
    /\ Has(request, "arguments")
    /\ CaseStudyIssue(request.arguments) = ""
    /\ Has(request.arguments, "caseName")

\* The request is a case_study request that passes caseStudySchema, names no
\* case study and describes a situation.
DescribesSituation ==
    /\ request.name = "case_study"
    /\ Has(request, "arguments")
    /\ CaseStudyIssue(request.arguments) = ""
    /\ ~Has(request.arguments, "caseName")
    /\ request.arguments.situation # ""

\* The line is the message of a missing case study.
IsNotFound(line) == Len(line) >= 12 /\ SubSeq(line, 1, 12) = "Case study \""

\* C18 (as stated): a request that carries one of the five case names of
\* the caseName enum gets the detail of a case study, a text that starts
\* with the title line of a case, and never the message that the case study
\* was not found.
C18_EveryAdvertisedCaseHasDetail ==
    (pc = "done" /\ NamesCase /\ request.arguments.caseName \in CaseNameEnum) =>
        /\ ~response.isError
        /\ \A k \in 1..Len(response.text) : ~IsNotFound(response.text[k])
        /\ SubSeq(response.text[1], 1, 2) = "# "

RequestSignals ==
    IF Has(request.arguments, "observedSignals") THEN request.arguments.observedSignals
    ELSE <<>>

AsksFramework ==
    /\ request.name = "get_framework"
    /\ Has(request, "arguments")
    /\ FrameworkIssue(request.arguments) = ""

\* The frameworks a selection stands for.
Selected(framework) ==
    IF framework = "all" THEN {FrameworkKeys[k] : k \in 1..Len(FrameworkKeys)}
    ELSE {framework}

\* The question lines of the selected frameworks, with and without the
\* importance.
SelectedQuestionLines(framework) ==
    UNION {{QuestionLines(DiagnosticQuestions(f))[k] :
                k \in 1..Len(DiagnosticQuestions(f))} : f \in Selected(framework)}

SelectedRatedLines(framework) ==
    UNION {{RatedQuestionLines(DiagnosticQuestions(f))[k] :
                k \in 1..Len(DiagnosticQuestions(f))} : f \in Selected(framework)}

Lines(text) == {text[k] : k \in 1..Len(text)}

\* C20 (as stated): for each framework selection of the enum, detail full
\* returns the summary of every selected framework and its diagnostic
\* questions, detail questions-only returns only headings and the
\* diagnostic questions, and a request without detail gets what detail
\* summary gets.
C20_DetailLevels ==
    (pc = "done" /\ AsksFramework) =>
        LET framework == request.arguments.framework
            detail == ValidatedDetail(request.arguments)
        IN  /\ ~response.isError
            /\ detail = "full" =>
                  /\ SelectedRatedLines(framework) \subseteq Lines(response.text)
                  /\ \A f \in Selected(framework) :
                        Lines(FRAMEWORK_SUMMARIES[f]) \subseteq Lines(response.text)
            /\ detail = "questions-only" =>
                  /\ SelectedQuestionLines(framework) \subseteq Lines(response.text)
                  /\ \A line \in Lines(response.text) :
                        \/ line = ""
                        \/ SubSeq(line, 1, 1) = "#"
                        \/ line \in SelectedQuestionLines(framework)
            /\ ~Has(request.arguments, "detail") =>
                  response = CallTool([name |-> "get_framework",
                                       arguments |-> [framework |-> framework,
                                                      detail |-> "summary"]])

(***************************************************************************)
(* Properties of the handler and of analyze_decision.                      *)
(***************************************************************************)
ToolNames == {"analyze_decision", "case_study", "get_framework"}

\* The request is an analyze_decision request that passes
\* analyzeDecisionSchema.
AsksAnalysis ==
    /\ request.name = "analyze_decision"
    /\ Has(request, "arguments")
    /\ AnalyzeIssue(request.arguments) = ""

\* The request reaches a schema that rejects its arguments.
InputRejected ==
    \/ /\ request.name = "analyze_decision"
       /\ ~AsksAnalysis
    \/ /\ request.name = "case_study"
       /\ Has(request, "arguments")
       /\ ~(Falsy(request.arguments, "situation") /\ Falsy(request.arguments, "caseName"))
       /\ CaseStudyIssue(request.arguments) # ""
    \/ /\ request.name = "get_framework"
       /\ ~AsksFramework

\* The persona file does not hold a persona with its sections.
NoPersonaInFile ==
    \/ personaFile.kind # "document"
    \/ personaFile.value = Null
    \/ ~personaFile.value.complete

StartsWith(line, prefix) ==
    Len(line) >= Len(prefix) /\ SubSeq(line, 1, Len(prefix)) = prefix

\* C21: the handler returns a result for every request.  The result has
\* isError and the one line "Error: " and the message exactly when the tool
\* name is unknown, a schema rejects the arguments, or the persona cannot be
\* loaded for an analysis; every other request gets a result without
\* isError.
C21_HandlerNeverThrows ==
    pc = "done" =>
        /\ response.sent
        /\ response.isError <=>
              \/ request.name \notin ToolNames
              \/ InputRejected
              \/ AsksAnalysis /\ NoPersonaInFile
        /\ response.isError =>
              /\ Len(response.text) = 1
              /\ StartsWith(response.text[1], "Error: ")
              /\ Len(response.text[1]) > Len("Error: ")
        /\ request.name \notin ToolNames =>
              response.text = <<"Error: Unknown tool: " \o request.name>>
        /\ (AsksAnalysis /\ personaFile = MissingFile) =>
              response.text = <<"Error: Persona not found: christensen">>
        /\ ~response.isError => Len(response.text) >= 1

\* An analysis whose persona file is not YAML: the parse error is returned
\* as an error result.
C21_Witness ==
    /\ pc = "done"
    /\ AsksAnalysis
    /\ personaFile = MalformedFile
    /\ response.sent /\ response.isError
    /\ response.text = <<"Error: <YAMLParseError>">>

\* The signals analyzeDecision derives for the request.
RequestPotentialSignals == PotentialSignals(InputText(request.arguments), Len(SignalTests))

\* The headings of the case studies in a text.
CaseHeadings(text) == SelectSeq(text, LAMBDA line : StartsWith(line, "### "))

C23_TestDecisionsMatchExpected ==
    \A t \in TestDecisions :
        (pc = "done" /\ request.name = "analyze_decision" /\ Has(request, "arguments")
            /\ request.arguments = t.input /\ ~response.isError) =>
            \E k \in 1..Len(response.text) :
                response.text[k] = "### " \o CANONICAL_CASES[t.expectedCaseStudyMatch].name

(***************************************************************************)
(* identifyPrimaryBlocker (frameworks/capabilities.ts).                    *)
(***************************************************************************)
\* A variant that checks the resources before the processes.
identifyPrimaryBlocker_ResourcesFirst(a) ==
    IF a.priorities.alignment = "misaligned" THEN "priorities"
    ELSE IF Len(a.resources.missing) > 0 /\ a.resources.flexibility = "low"
    THEN "resources"
    ELSE IF /\ a.processes.rigidity = "high"
            /\ Len(a.processes.hindering) > Len(a.processes.supporting)
    THEN "processes"
    ELSE IF Len(a.processes.hindering) > 0 THEN "processes"
    ELSE "none"

identifyPrimaryBlocker(a) ==
    IF a.priorities.alignment = "misaligned" THEN "priorities"
    ELSE IF /\ a.processes.rigidity = "high"
            /\ Len(a.processes.hindering) > Len(a.processes.supporting)
    THEN "processes"
    ELSE IF Len(a.resources.missing) > 0 /\ a.resources.flexibility = "low"
    THEN "resources"
    ELSE IF Len(a.processes.hindering) > 0 THEN "processes"
    ELSE "none"

\* The analyses: the fields identifyPrimaryBlocker reads, with lists of up
\* to MaxItems entries.
MaxItems == 2
Levels == {"high", "medium", "low"}
Alignments == {"aligned", "neutral", "misaligned"}
ItemLists == SeqsUpTo({"item"}, MaxItems)

Analyses ==
    {[given |-> TRUE,
      resources |-> [missing |-> m, flexibility |-> f],
      processes |-> [supporting |-> s, hindering |-> h, rigidity |-> r],
      priorities |-> [alignment |-> al]] :
        m \in ItemLists, f \in Levels, s \in ItemLists, h \in ItemLists, r \in Levels,
        al \in Alignments}

InitBlocker ==
    /\ pc = "ready"
    /\ signals = <<>>
    /\ matches = <<>>
    /\ output = ""
    /\ score = NoScore
    /\ library = CANONICAL_CASES
    /\ markers = [positive |-> POSITIVE_PATTERNS, negative |-> NEGATIVE_PATTERNS]
    /\ history = <<>>
    /\ request = NoRequest
    /\ response = NoResponse
    /\ cachedPersona = Null
    /\ personaFile = FileOf(ChristensenPersona)
    /\ random = 0
    /\ analysis \in Analyses
    /\ primaryBlocker = NotAssessed

\* A call of identifyPrimaryBlocker(analysis).
BlockerCall ==
    /\ pc = "ready"
    /\ pc' = "done"
    /\ primaryBlocker' = identifyPrimaryBlocker(analysis)
    /\ UNCHANGED <<signals, matches, output, score, library, markers, history, request,
                   response, cachedPersona, personaFile, random, analysis>>

NextBlocker == BlockerCall

SpecBlocker == InitBlocker /\ [][NextBlocker]_vars

Misaligned == analysis.priorities.alignment = "misaligned"
RigidAndOutnumbered ==
    /\ analysis.processes.rigidity = "high"
    /\ Len(analysis.processes.hindering) > Len(analysis.processes.supporting)
MissingAndInflexible ==
    Len(analysis.resources.missing) > 0 /\ analysis.resources.flexibility = "low"
Hindered == Len(analysis.processes.hindering) > 0

\* C24: identifyPrimaryBlocker returns priorities whenever the alignment is
\* misaligned; otherwise processes when the rigidity is high and the
\* hindering processes outnumber the supporting ones; otherwise resources
\* when something is missing and the flexibility is low; otherwise
\* processes when a process hinders; and none exactly when the alignment is
\* not misaligned, no process hinders, and it is not the case that
\* something is missing with low flexibility.
C24_BlockerOrder ==
    pc = "done" =>
        /\ Misaligned => primaryBlocker = "priorities"
        /\ (~Misaligned /\ RigidAndOutnumbered) => primaryBlocker = "processes"
        /\ (~Misaligned /\ ~RigidAndOutnumbered /\ MissingAndInflexible)
              => primaryBlocker = "resources"
        /\ (~Misaligned /\ ~RigidAndOutnumbered /\ ~MissingAndInflexible /\ Hindered)
              => primaryBlocker = "processes"
        /\ (primaryBlocker = "none") <=> (~Misaligned /\ ~Hindered /\ ~MissingAndInflexible)

\* An analysis in which both the processes and the resources block: the
\* processes are named.
C24_Witness ==
    /\ pc = "done"
    /\ ~Misaligned
    /\ RigidAndOutnumbered
    /\ MissingAndInflexible
    /\ primaryBlocker = "processes"

(***************************************************************************)
(* Properties of the analysis prompt.                                      *)
(***************************************************************************)
SectionHeadings == {SectionHeading(SectionOrder[k]) : k \in 1..Len(SectionOrder)}

\* The lines of the response from "## Analysis Request" up to the heading
\* of the case studies: the analysis prompt.
PromptOf(text) ==
    LET from == CHOOSE k \in 1..Len(text) : text[k] = "## Analysis Request"
        upto == CHOOSE k \in 1..Len(text) : text[k] = "## Potentially Relevant Case Studies"
    IN  SubSeq(text, from + 1, upto - 1)

\* The headings of the framework sections of a text, in their order.
FrameworkSections(text) == SelectSeq(text, LAMBDA line : line \in SectionHeadings)

\* C25: the analysis prompt of an accepted analyze_decision request has a
\* framework section for exactly the frameworks of focusAreas, all four
\* when focusAreas is omitted and none when it is empty, each once and in
\* the order JTBD, disruption, CPP, resource dependence, whatever the order
\* and the repetitions of focusAreas.
C25_SectionsFollowFocusAreas ==
    (pc = "done" /\ AsksAnalysis /\ ~response.isError) =>
        LET wanted == IF Has(request.arguments, "focusAreas")
                      THEN Elements(request.arguments.focusAreas)
                      ELSE FocusAreaEnum
            inOrder == SelectSeq(SectionOrder, LAMBDA area : area \in wanted)
        IN  FrameworkSections(PromptOf(response.text)) =
                [k \in 1..Len(inOrder) |-> SectionHeading(inOrder[k])]

\* An analysis whose focusAreas are out of order and hold all four
\* frameworks: the sections come in the fixed order.
C25_Witness ==
    /\ pc = "done"
    /\ AsksAnalysis
    /\ ~response.isError
    /\ Has(request.arguments, "focusAreas")
    /\ request.arguments.focusAreas = <<"resource-dependence", "cpp", "disruption", "jtbd">>
    /\ FrameworkSections(PromptOf(response.text)) =
          <<"## JOBS-TO-BE-DONE ANALYSIS", "## DISRUPTION THEORY ANALYSIS",
            "## CAPABILITIES-PROCESSES-PRIORITIES ANALYSIS", "## RESOURCE DEPENDENCE ANALYSIS">>

(***************************************************************************)
(* Properties of the suggestions of case_study.                            *)
(***************************************************************************)
\* The lines of the response after "Consider exploring these cases ..." up
\* to the next empty line: the suggestions.
Suggestions(text) ==
    LET from == CHOOSE k \in 1..Len(text) :
                    text[k] = "Consider exploring these cases to find the best pattern match:"
        upto == CHOOSE k \in (from + 1)..Len(text) :
                    text[k] = "" /\ \A j \in (from + 1)..(k - 1) : text[j] # ""
    IN  SubSeq(text, from + 1, upto - 1)

\* The suggestion lines of the records of the library.
LibraryLines ==
    {"- " \o CANONICAL_CASES[key].name \o ": " \o CANONICAL_CASES[key].pattern :
        key \in DOMAIN CANONICAL_CASES}

\* C26 (as stated): when no case study matches the signals of a case_study
\* request, every line under "Consider exploring these cases" is the name
\* and the pattern of a record of the library.
C26_SuggestionsAreDefined ==
    (pc = "done" /\ DescribesSituation /\ matchToCaseStudies(RequestSignals) = <<>>) =>
        /\ ~response.isError
        /\ \A k \in 1..Len(Suggestions(response.text)) :
              Suggestions(response.text)[k] \in LibraryLines

(***************************************************************************)
(* Properties of findMatches.                                              *)
(***************************************************************************)
\* The excerpt of the first match of a pattern in the text, "" when the
\* pattern does not match; lowered is the text in lower case.
FirstExcerpt(text, lowered, pattern) ==
    LET match == Exec(lowered, pattern)
    IN  IF match[1] = 0 THEN "" ELSE SubSeq(text, match[1], match[2] - 1)

\* The excerpts of the first n rules of a list, by rule.
RECURSIVE ExcerptsUpTo(_, _, _, _)
ExcerptsUpTo(text, lowered, patterns, n) ==
    IF n = 0 THEN <<>>
    ELSE Append(ExcerptsUpTo(text, lowered, patterns, n - 1),
                FirstExcerpt(text, lowered, patterns[n]))

\* The excerpts of the rules of a list, by rule.
Excerpts(text, lowered, patterns) == ExcerptsUpTo(text, lowered, patterns, Len(patterns))

\* The excerpts of the matching rules, in the order of the rules.
KeptExcerpts(excerpts) == SelectSeq(excerpts, LAMBDA excerpt : excerpt # "")

\* The rules that match, given the excerpts: a match is never empty.
MatchingRules(excerpts) == {k \in 1..Len(excerpts) : excerpts[k] # ""}

\* The rules of the dismissive category other than the one of "stupid",
\* the only rule whose excerpt can hold that token.
OtherDismissiveRules ==
    SubSeq(NEGATIVE_PATTERNS.dismissive, 2, Len(NEGATIVE_PATTERNS.dismissive))

\* C27: a match is dropped only when it holds the token "stupid".  Every
\* match of another dismissive rule, and every match of another category,
\* is kept; a text that another dismissive rule matches has the dismissive
\* category found, 15 points of penalty for it and passed = FALSE, with or
\* without the exoneration phrase.
C27_OnlyStupidIsSuppressed ==
    pc = "done" =>
        LET lowered == toLowerCase(output)
            others == KeptExcerpts(Excerpts(output, lowered, OtherDismissiveRules))
            kept == score.antiPatterns.dismissive.matches
        IN  /\ SelectSeq(kept, LAMBDA excerpt : toLowerCase(excerpt) # "stupid") = others
            /\ \A n \in 1..Len(others) : ~includes(toLowerCase(others[n]), "stupid")
            /\ others # <<>> =>
                  /\ score.antiPatterns.dismissive.found
                  /\ score.antiPatternPenalty = PenaltyOfOthers + 15
                  /\ ~score.passed
            /\ \A key \in {"overconfidence", "generic"} :
                  score.antiPatterns[key].matches =
                      KeptExcerpts(Excerpts(output, lowered, NEGATIVE_PATTERNS[key]))

\* A scored text with the exoneration phrase and another dismissive
\* phrase: the excerpt with "stupid" is dropped, the other one is kept.
C27_Witness ==
    /\ pc = "done"
    /\ ExonerationPhrase(toLowerCase(output))
    /\ score.antiPatterns.dismissive.matches = <<"terrible idea">>
    /\ score.antiPatternPenalty = 15
    /\ ~score.passed

\* C28: every rule contributes at most one excerpt, the first occurrence of
\* its match in the text.  The match list of a positive category is the
\* list of the first excerpts of its matching rules, in rule order, so it
\* is never longer than the rule list, and the same holds for the
\* anti-pattern lists; "framework matched more than once" and "humility
\* matched more than once" hold exactly when two different rules of the
\* category match.
C28_OneExcerptPerRule ==
    pc = "done" =>
        LET lowered == toLowerCase(output)
        IN  /\ \A key \in RequiredKeys \cup {"story"} :
                  LET excerpts == Excerpts(output, lowered, POSITIVE_PATTERNS[key])
                  IN  /\ score.breakdown[key].matches = KeptExcerpts(excerpts)
                      /\ Len(score.breakdown[key].matches) <= Len(POSITIVE_PATTERNS[key])
                      /\ key \in {"frameworkReference", "humility"} =>
                            ( Len(score.breakdown[key].matches) > 1
                                <=> Cardinality(MatchingRules(excerpts)) >= 2 )
            /\ \A key \in ForbiddenKeys :
                  Len(score.antiPatterns[key].matches) <= Len(NEGATIVE_PATTERNS[key])

\* A scored text that repeats one fragment and holds one humility marker
\* twice: the marker is listed once and no recommended check holds.
C28_Witness ==
    /\ pc = "done"
    /\ \E fragment \in Fragments : output = fragment \o " " \o fragment
    /\ score.breakdown.humility.matches = <<"The question is">>
    /\ Len(score.breakdown.frameworkReference.matches) <= 1
    /\ score.shouldIncludeScore = 0

(***************************************************************************)
(* Properties of matchToCaseStudies on the empty observation.              *)
(***************************************************************************)
\* C29: the empty string matches the first descriptor of every record of
\* the library, so matchToCaseStudies([""]) returns one reference per
\* record, in declaration order, each with matchCount 1 and strength low;
\* and whenever the empty string is among the signals every record is
\* returned.
C29_EmptyObservationMatchesAll ==
    pc = "done" =>
        /\ signals = <<"">> =>
              /\ Len(matches) = Len(CaseKeys)
              /\ \A i \in 1..Len(matches) :
                    /\ matches[i].key = CaseKeys[i]
                    /\ matches[i].matchCount = 1
                    /\ matches[i].matchStrength = "low"
                    /\ matches[i].matchedSignals = <<CANONICAL_CASES[CaseKeys[i]].signals[1]>>
        /\ (\E n \in 1..Len(signals) : signals[n] = "") =>
              {matches[i].key : i \in 1..Len(matches)} = CaseKeySet

\* The call matchToCaseStudies([""]) has returned the four records.
C29_Witness ==
    /\ pc = "done"
    /\ signals = <<"">>
    /\ Len(matches) = 4
    /\ matches[4].key = "intel_microprocessors"
    /\ matches[4].relevance = "Matches 1 signals: " \o CANONICAL_CASES.intel_microprocessors.signals[1]

====
